---- MODULE Spec2Model ----
(***************************************************************************)
(* Model of the metadata-enrichment and translation pipeline of ReviewNow  *)
(* (src/metadata_enricher.py, class MetadataEnricher).                     *)
(*                                                                         *)
(* Strings are sequences of Unicode code points, so that the character     *)
(* range scan of contains_chinese, str.upper() and the substring test for  *)
(* the quota sentinel are computed, not assumed.  Offsets are 0-based as   *)
(* in Python; text[i] of the source is text[i + 1] here.                   *)
(***************************************************************************)
EXTENDS Integers, Sequences, FiniteSets, TLC

VARIABLES
    translation_cache,       \* self.translation_cache : cache key -> string
    translation_fail_count,  \* self.translation_fail_count
    use_google_translate,    \* self.use_google_translate
    call,                    \* per calling thread: position in translate_text and its locals
    ncalls,                  \* number of calls started on this MetadataEnricher
    writer,                  \* history: cache key -> the request whose call stored the entry
    answered,                \* history: request -> its first result and its backend invocations
    chunk_in,                \* chunk_text harness: the arguments (text, max_chunk_size)
    chunk_out,               \* chunk_text harness: the returned list, once applied
    loop,                    \* chunk_text harness: the locals of a call run line by line
    details,                 \* the last call of ArxivClient.get_paper_details
    search,                  \* the last call of ArxivClient.search
    download_states,         \* st.session_state.download_states : paper id -> state
    download_messages,       \* st.session_state.download_messages : paper id -> message parts
    thread,                  \* paper id -> position of its download_paper_async thread
    started,                 \* history: paper id -> number of download threads started
    attempts,                \* history: paper id -> number of runs of download_pdf
    files,                   \* the paper ids with a file in downloads/
    nbatch,                  \* number of submissions of the batch download form
    papers,                  \* the content of papers.json : paper id -> record
    manager                  \* the last call of PaperManager.add_paper

vars == <<translation_cache, translation_fail_count, use_google_translate,
          call, ncalls, writer, answered, chunk_in, chunk_out, loop, details,
          search, download_states, download_messages, thread, started, attempts,
          files, nbatch, papers, manager>>

\* The variables of the chunk_text harness
chunk_vars == <<chunk_in, chunk_out, loop>>

\* The variables of the client and of the web application around the enricher
app_vars == <<search, download_states, download_messages, thread, started, attempts,
              files, nbatch, papers, manager>>

\* The variables of the download threads and of the paper store
download_vars == <<download_states, download_messages, thread, started, attempts,
                   files, nbatch, papers, manager>>

-----------------------------------------------------------------------------
(* Bounds of the model *)

MaxCalls == 2        \* calls made in one session
MaxTextLen == 4      \* chunk_text harness: longest enumerated text
MaxChunkArg == 3     \* chunk_text harness: largest enumerated max_chunk_size

-----------------------------------------------------------------------------
(* Characters (code points) *)

NL == 10             \* '\n'
SP == 32             \* ' '
BANG == 33           \* '!'
DOT == 46            \* '.'
QUESTION == 63       \* '?'
UNDERSCORE == 95     \* '_'
CJK_FIRST == 19968   \* U+4E00
CJK_LAST == 40959    \* U+9FFF

\* n copies of the character c
Rep(c, n) == [i \in 1..n |-> c]

\* Python slice text[lo:hi] for 0 <= lo, clipped at len(text)
Slice(text, lo, hi) ==
    LET h == IF hi > Len(text) THEN Len(text) ELSE hi
    IN  IF lo >= h THEN <<>> ELSE [i \in 1..(h - lo) |-> text[lo + i]]

\* Is sub a substring of text (Python: sub in text)
IsSubstring(sub, text) ==
    \E k \in 0..(Len(text) - Len(sub)) :
        \A j \in 1..Len(sub) : text[k + j] = sub[j]

\* str.upper() on the characters used here: ASCII a-z map to A-Z
UpperChar(c) == IF c >= 97 /\ c <= 122 THEN c - 32 ELSE c

Upper(text) == [i \in 1..Len(text) |-> UpperChar(text[i])]

\* ' '.join(parts)
RECURSIVE join_space(_)
join_space(parts) ==
    IF Len(parts) = 0 THEN <<>>
    ELSE IF Len(parts) = 1 THEN parts[1]
    ELSE parts[1] \o <<SP>> \o join_space(Tail(parts))

\* ''.join(parts)
RECURSIVE Concat(_)
Concat(parts) ==
    IF Len(parts) = 0 THEN <<>> ELSE parts[1] \o Concat(Tail(parts))

\* The greatest element of a non-empty set of integers (Python max)
Max(S) == CHOOSE x \in S : \A y \in S : y <= x

-----------------------------------------------------------------------------
(* contains_chinese *)

\* Mutant: re.match instead of re.search, which looks at the first character only
contains_chinese_match(text) ==
    IF Len(text) = 0 THEN FALSE
    ELSE text[1] >= CJK_FIRST /\ text[1] <= CJK_LAST

contains_chinese(text) ==
    IF Len(text) = 0 THEN FALSE
    ELSE \E i \in 1..Len(text) : text[i] >= CJK_FIRST /\ text[i] <= CJK_LAST

-----------------------------------------------------------------------------
(* chunk_text *)

\* Mutant: the search ignores start and runs from the beginning of the text
rfind_from_zero(text, sub, start, end) ==
    LET e == IF end > Len(text) THEN Len(text) ELSE end
        hits == { i \in 0..(e - Len(sub)) :
                    \A j \in 1..Len(sub) : text[i + j] = sub[j] }
    IN  IF hits = {} THEN -1 ELSE Max(hits)

\* str.rfind(sub, start, end): the highest 0-based index i with
\* start <= i, i + len(sub) <= min(end, len(text)) and text[i:i+len(sub)] = sub; -1 if none
rfind(text, sub, start, end) ==
    LET e == IF end > Len(text) THEN Len(text) ELSE end
        hits == { i \in start..(e - Len(sub)) :
                    \A j \in 1..Len(sub) : text[i + j] = sub[j] }
    IN  IF hits = {} THEN -1 ELSE Max(hits)

\* lines 92-99: the rightmost sentence terminator followed by a space or newline
SentenceEnd(text, start, end) ==
    Max({ rfind(text, <<DOT, SP>>, start, end),
          rfind(text, <<QUESTION, SP>>, start, end),
          rfind(text, <<BANG, SP>>, start, end),
          rfind(text, <<DOT, NL>>, start, end),
          rfind(text, <<QUESTION, NL>>, start, end),
          rfind(text, <<BANG, NL>>, start, end) })

\* Mutant: the hard cut is placed at end instead of end - 1
BoundaryCutAtEnd(text, start, max_chunk_size) ==
    LET end == start + max_chunk_size
        s1 == SentenceEnd(text, start, end)
        s2 == rfind(text, <<SP>>, start, end)
    IN  IF s1 # -1 THEN s1
        ELSE IF s2 # -1 THEN s2
        ELSE end

\* lines 89-105: the index of the last character of the chunk starting at start
Boundary(text, start, max_chunk_size) ==
    LET end == start + max_chunk_size
        s1 == SentenceEnd(text, start, end)
        s2 == rfind(text, <<SP>>, start, end)
    IN  IF s1 # -1 THEN s1
        ELSE IF s2 # -1 THEN s2
        ELSE end - 1

\* Mutant: the boundary character is trimmed, the next chunk starts one later
RECURSIVE chunk_loop_trimming(_, _, _, _)
chunk_loop_trimming(text, max_chunk_size, start, chunks) ==
    IF ~(start < Len(text)) THEN chunks
    ELSE IF start + max_chunk_size >= Len(text)
         THEN Append(chunks, Slice(text, start, Len(text)))
    ELSE LET sentence_end == Boundary(text, start, max_chunk_size)
         IN  chunk_loop_trimming(text, max_chunk_size, sentence_end + 2,
                                 Append(chunks, Slice(text, start, sentence_end)))

\* Mutant: a space at the head of a chunk is stripped
RECURSIVE chunk_loop_stripping(_, _, _, _)
chunk_loop_stripping(text, max_chunk_size, start, chunks) ==
    LET lstrip(s) == IF s # <<>> /\ s[1] = SP THEN Tail(s) ELSE s
    IN  IF ~(start < Len(text)) THEN chunks
        ELSE IF start + max_chunk_size >= Len(text)
             THEN Append(chunks, lstrip(Slice(text, start, Len(text))))
        ELSE LET sentence_end == Boundary(text, start, max_chunk_size)
             IN  chunk_loop_stripping(text, max_chunk_size, sentence_end + 1,
                     Append(chunks, lstrip(Slice(text, start, sentence_end + 1))))

\* lines 82-109: the while loop, from offset start with the chunks so far
RECURSIVE chunk_loop(_, _, _, _)
chunk_loop(text, max_chunk_size, start, chunks) ==
    IF ~(start < Len(text)) THEN chunks
    ELSE IF start + max_chunk_size >= Len(text)
         THEN Append(chunks, Slice(text, start, Len(text)))
    ELSE LET sentence_end == Boundary(text, start, max_chunk_size)
         IN  chunk_loop(text, max_chunk_size, sentence_end + 1,
                        Append(chunks, Slice(text, start, sentence_end + 1)))

\* Mutant: the fast path of lines 76-77 is missing
chunk_text_no_fast_path(text, max_chunk_size) ==
    chunk_loop(text, max_chunk_size, 0, <<>>)

chunk_text(text, max_chunk_size) ==
    IF Len(text) = 0 \/ Len(text) <= max_chunk_size THEN <<text>>
    ELSE chunk_loop(text, max_chunk_size, 0, <<>>)

-----------------------------------------------------------------------------
(* Exceptions.  A call outcome carries exc = "" when it returns normally    *)
(* and the exception's class name when it raises.                          *)

NoExc == ""

\* Mutant: the handlers catch ValueError only
ExceptValueError(e) == e = "ValueError"

\* `except Exception as e:` (lines 54, 144, 192, 220, 260, 280): every
\* exception the backends raise is a subclass of Exception
ExceptException(e) == e # NoExc

\* bare `except:` (lines 229, 268, 285)
ExceptBare(e) == e # NoExc

-----------------------------------------------------------------------------
(* Language codes and strings of the model *)

EN == <<101, 110>>       \* "en"
ZH == <<122, 104>>       \* "zh"
FR == <<102, 114>>       \* "fr"
JA == <<106, 97>>        \* "ja"

NI_HAO == <<20320, 22909>>                       \* U+4F60 U+597D
MYMEMORY_WARNING == <<77, 89, 77, 69, 77, 79, 82, 89, 32, 87, 65, 82, 78, 73, 78, 71>>
QUOTA_EXCEEDED == <<81, 85, 79, 84, 65, 32, 69, 88, 67, 69, 69, 68, 69, 68>>

-----------------------------------------------------------------------------
(* Primary backend: translate.Translator(to_lang, from_lang).translate(chunk) *)
(* An external service: what it answers is an input of the model.            *)

PrimaryTranslation == <<35793, 25991>>           \* a translation, U+8BD1 U+6587
\* "MYMEMORY WARNING: QUOTA EXCEEDED"
SentinelBody == MYMEMORY_WARNING \o <<58, 32>> \o QUOTA_EXCEEDED
\* "quota exceeded", in lower case
SentinelLowerBody == <<113, 117, 111, 116, 97, 32, 101, 120, 99, 101, 101, 100, 101, 100>>

PrimaryOutcomes ==
    { [exc |-> NoExc, body |-> PrimaryTranslation],
      [exc |-> NoExc, body |-> SentinelBody],
      [exc |-> NoExc, body |-> SentinelLowerBody],
      [exc |-> "ConnectionError", body |-> <<>>] }

\* Mutant: the sentinel is looked for without .upper()
IsQuotaSentinelCaseSensitive(translated) ==
    \/ IsSubstring(MYMEMORY_WARNING, translated)
    \/ IsSubstring(QUOTA_EXCEEDED, translated)

\* lines 209 and 250: the quota sentinel inside a successful response
IsQuotaSentinel(translated) ==
    \/ IsSubstring(MYMEMORY_WARNING, Upper(translated))
    \/ IsSubstring(QUOTA_EXCEEDED, Upper(translated))

-----------------------------------------------------------------------------
(* Secondary backend: google_translate, a GET on translate.googleapis.com  *)

GoogleSegments == << <<32763>>, <<>>, <<35793>> >>   \* [[U+7FFB, ..], [None, ..], [U+8BD1, ..]]
GoogleTranslation == <<32763, 35793>>                \* U+7FFB U+8BD1

\* What the HTTP exchange can do: raise in requests.get, answer a non-200
\* status, answer 200 with a body that response.json() or result[0] rejects,
\* or answer 200 with the nested list of segments.
GoogleOutcomes ==
    { [exc |-> NoExc, status |-> 200, segs |-> GoogleSegments],
      [exc |-> NoExc, status |-> 429, segs |-> <<>>],
      [exc |-> "ConnectionError", status |-> 0, segs |-> <<>>],
      [exc |-> "JSONDecodeError", status |-> 200, segs |-> <<>>] }

\* lines 138-141: concatenate the non-empty first elements of the segments
RECURSIVE translated_text(_)
translated_text(segs) ==
    IF Len(segs) = 0 THEN <<>>
    ELSE (IF Len(segs[1]) > 0 THEN segs[1] ELSE <<>>) \o translated_text(Tail(segs))

\* Mutant: a failed request yields the empty string instead of the text
google_translate_empty_on_failure(text, o) ==
    IF o.exc # NoExc \/ o.status # 200 THEN [exc |-> NoExc, val |-> <<>>]
    ELSE [exc |-> NoExc, val |-> translated_text(o.segs)]

\* lines 113-146; returns [exc, val]
google_translate(text, o) ==
    IF o.exc = "ConnectionError"
    THEN IF ExceptException(o.exc) THEN [exc |-> NoExc, val |-> text]
         ELSE [exc |-> o.exc, val |-> <<>>]
    ELSE IF o.status # 200 THEN [exc |-> NoExc, val |-> text]
    ELSE IF o.exc # NoExc
    THEN IF ExceptException(o.exc) THEN [exc |-> NoExc, val |-> text]
         ELSE [exc |-> o.exc, val |-> <<>>]
    ELSE [exc |-> NoExc, val |-> translated_text(o.segs)]

\* Did the secondary backend fail to deliver a translation
GoogleFailed(o) == o.exc # NoExc \/ o.status # 200

-----------------------------------------------------------------------------
(* enrich_with_semantic_scholar, lines 18-56.  JSON objects are functions  *)
(* from field names; None is the string "None".                            *)

ARXIV_PREFIX == <<97, 114, 120, 105, 118, 58>>       \* 'arxiv:'
PAPER_ID == <<50, 49, 48, 49>>                       \* "2101"

ArxivIds == { PAPER_ID, ARXIV_PREFIX \o PAPER_ID }

\* lines 23-24
strip_prefix(arxiv_id) ==
    IF Slice(arxiv_id, 0, Len(ARXIV_PREFIX)) = ARXIV_PREFIX
    THEN Slice(arxiv_id, Len(ARXIV_PREFIX), Len(arxiv_id))
    ELSE arxiv_id

FullPaper ==
    [citationCount |-> 12, influentialCitationCount |-> 3, venue |-> "NeurIPS",
     year |-> "2020", doi |-> "10.1000/x", url |-> "https://www.semanticscholar.org/p",
     isOpenAccess |-> TRUE, topics |-> << [name |-> "Translation"] >>]

BarePaper == [paperId |-> "p"]

SemanticOutcomes ==
    { [exc |-> NoExc, status |-> 200, data |-> FullPaper],
      [exc |-> NoExc, status |-> 200, data |-> BarePaper],
      [exc |-> NoExc, status |-> 404, data |-> <<>>],
      [exc |-> "Timeout", status |-> 0, data |-> <<>>],
      [exc |-> "JSONDecodeError", status |-> 200, data |-> <<>>] }

\* dict.get(k, default)
Get(data, k, default) == IF k \in DOMAIN data THEN data[k] ELSE default

\* lines 38-47
additional_data(data) ==
    [citation_count |-> Get(data, "citationCount", 0),
     influence_factor |-> Get(data, "influentialCitationCount", 0),
     published_in |-> Get(data, "venue", "unknown"),
     year |-> Get(data, "year", "None"),
     doi |-> Get(data, "doi", "None"),
     url |-> Get(data, "url", "None"),
     is_open_access |-> Get(data, "isOpenAccess", FALSE),
     topics |-> LET topics == Get(data, "topics", <<>>)
                IN  [i \in 1..Len(topics) |-> Get(topics[i], "name", "None")]]

\* Mutant: the status code is not looked at
enrich_ignoring_status(arxiv_id, o) ==
    IF o.exc # NoExc
    THEN IF ExceptException(o.exc) THEN [exc |-> NoExc, val |-> <<>>]
         ELSE [exc |-> o.exc, val |-> <<>>]
    ELSE [exc |-> NoExc, val |-> additional_data(o.data)]

\* lines 29-56; returns [exc, val]
enrich_with_semantic_scholar(arxiv_id, o) ==
    IF o.exc # NoExc
    THEN IF ExceptException(o.exc) THEN [exc |-> NoExc, val |-> <<>>]
         ELSE [exc |-> o.exc, val |-> <<>>]
    ELSE IF o.status = 200 THEN [exc |-> NoExc, val |-> additional_data(o.data)]
    ELSE [exc |-> NoExc, val |-> <<>>]

-----------------------------------------------------------------------------
(* translate_text: one chunk's worth of lines 171-194 and 196-286.           *)
(* The result of handling one chunk is                                     *)
(*   out = "value":  val is the chunk's result (appended, or cached and    *)
(*                   returned when the text is a single chunk);            *)
(*   out = "return": translate_text returns val at once, caching nothing;  *)
(*   out = "raise":  the exception leaves translate_text.                  *)
(* fc and ug are the fail count and the flag after the chunk; nP and nG    *)
(* count the invocations of the primary and of the secondary backend; tr   *)
(* records what the backends did.                                          *)

ThresholdFailCount == 3
PrimaryChunkSize == 450
GoogleChunkSize == 900
KeyPrefixLen == 30

ChunkResult(out, val, fc, ug, nP, nG, trp, trg, body) ==
    [out |-> out, val |-> val, fc |-> fc, ug |-> ug, nP |-> nP, nG |-> nG,
     tr |-> [p |-> trp, g |-> trg, body |-> body]]

GoogleTrace(o) == IF GoogleFailed(o) THEN "fail" ELSE "ok"

\* lines 280-286: the outermost handler of the primary path
outer_handler(e, text, fc, ug, nP, nG, trp, g, body) ==
    IF ExceptException(e)
    THEN LET r == google_translate(text, g)
         IN  IF r.exc = NoExc
             THEN ChunkResult("return", r.val, fc, ug, nP, nG + 1, trp, GoogleTrace(g), body)
             ELSE IF ExceptBare(r.exc)
             THEN ChunkResult("return", text, fc, ug, nP, nG + 1, trp, GoogleTrace(g), body)
             ELSE ChunkResult("raise", <<>>, fc, ug, nP, nG + 1, trp, GoogleTrace(g), body)
    ELSE ChunkResult("raise", <<>>, fc, ug, nP, nG, trp, "none", body)

\* Mutant: the handler of a failed primary translation sets the flag too
chunk_handler_setting_flag(single, e, chunk, text, fc, ug, nP, nG, trp, g, body) ==
    IF ExceptException(e)
    THEN LET r == google_translate(chunk, g)
         IN  IF r.exc = NoExc
             THEN ChunkResult("value", r.val, fc + 1, TRUE, nP, nG + 1, trp, GoogleTrace(g), body)
             ELSE IF single
             THEN ChunkResult("return", text, fc + 1, TRUE, nP, nG + 1, trp, GoogleTrace(g), body)
             ELSE ChunkResult("value", chunk, fc + 1, TRUE, nP, nG + 1, trp, GoogleTrace(g), body)
    ELSE outer_handler(e, text, fc, ug, nP, nG, trp, g, body)

\* lines 220-230 (single chunk) and 260-270 (one of several chunks): the
\* handler of a failed primary translation
chunk_handler(single, e, chunk, text, fc, ug, nP, nG, trp, g, body) ==
    IF ExceptException(e)
    THEN LET r == google_translate(chunk, g)
         IN  IF r.exc = NoExc
             THEN ChunkResult("value", r.val, fc + 1, ug, nP, nG + 1, trp, GoogleTrace(g), body)
             ELSE IF ExceptBare(r.exc)
             THEN IF single
                  THEN ChunkResult("return", text, fc + 1, ug, nP, nG + 1, trp, GoogleTrace(g), body)
                  ELSE ChunkResult("value", chunk, fc + 1, ug, nP, nG + 1, trp, GoogleTrace(g), body)
             ELSE outer_handler(r.exc, text, fc + 1, ug, nP, nG + 1, trp, g, body)
    ELSE outer_handler(e, text, fc, ug, nP, nG, trp, g, body)

\* Mutant: a successful primary translation resets the fail count
primary_chunk_resetting(single, chunk, text, fc, ug, p, g) ==
    IF p.exc # NoExc
    THEN chunk_handler(single, p.exc, chunk, text, fc, ug, 1, 0, "exc", g, p.body)
    ELSE IF IsQuotaSentinel(p.body)
    THEN LET r == google_translate(chunk, g)
         IN  IF r.exc = NoExc
             THEN ChunkResult("value", r.val, fc + 1, TRUE, 1, 1, "sentinel", GoogleTrace(g), p.body)
             ELSE chunk_handler(single, r.exc, chunk, text, fc + 1, TRUE, 1, 1, "sentinel", g, p.body)
    ELSE ChunkResult("value", p.body, 0, ug, 1, 0, "ok", "none", p.body)

\* Mutant: a sentinel is counted as a failure but kept as the chunk's value
primary_chunk_keeping_sentinel(single, chunk, text, fc, ug, p, g) ==
    IF p.exc # NoExc
    THEN chunk_handler(single, p.exc, chunk, text, fc, ug, 1, 0, "exc", g, p.body)
    ELSE IF IsQuotaSentinel(p.body)
    THEN ChunkResult("value", p.body, fc + 1, TRUE, 1, 0, "sentinel", "none", p.body)
    ELSE ChunkResult("value", p.body, fc, ug, 1, 0, "ok", "none", p.body)

\* lines 204-219 and 245-258: the primary backend, with the sentinel check
primary_chunk(single, chunk, text, fc, ug, p, g) ==
    IF p.exc # NoExc
    THEN chunk_handler(single, p.exc, chunk, text, fc, ug, 1, 0, "exc", g, p.body)
    ELSE IF IsQuotaSentinel(p.body)
    THEN LET r == google_translate(chunk, g)
         IN  IF r.exc = NoExc
             THEN ChunkResult("value", r.val, fc + 1, TRUE, 1, 1, "sentinel", GoogleTrace(g), p.body)
             ELSE chunk_handler(single, r.exc, chunk, text, fc + 1, TRUE, 1, 1, "sentinel", g, p.body)
    ELSE ChunkResult("value", p.body, fc, ug, 1, 0, "ok", "none", p.body)

\* lines 241-243: a chunk of a multi-chunk text once use_google_translate is set
google_chunk(chunk, text, fc, ug, g) ==
    LET r == google_translate(chunk, g)
    IN  IF r.exc = NoExc
        THEN ChunkResult("value", r.val, fc, ug, 0, 1, "none", GoogleTrace(g), <<>>)
        ELSE chunk_handler(FALSE, r.exc, chunk, text, fc, ug, 0, 1, "none", g, <<>>)

\* lines 171-194: a chunk on the fallback path
fallback_chunk(chunk, text, fc, ug, g) ==
    LET r == google_translate(chunk, g)
    IN  IF r.exc = NoExc
        THEN ChunkResult("value", r.val, fc, ug, 0, 1, "none", GoogleTrace(g), <<>>)
        ELSE IF ExceptException(r.exc)
        THEN ChunkResult("return", text, fc, ug, 0, 1, "none", GoogleTrace(g), <<>>)
        ELSE ChunkResult("raise", <<>>, fc, ug, 0, 1, "none", GoogleTrace(g), <<>>)

\* Mutant: the loop of line 236 does not look at use_google_translate
translate_chunk_primary_always(mode, single, chunk, text, fc, ug, p, g) ==
    IF mode = "fallback" THEN fallback_chunk(chunk, text, fc, ug, g)
    ELSE primary_chunk(single, chunk, text, fc, ug, p, g)

\* lines 175-186 and 201-258: the chunk at hand on the path of the call
translate_chunk(mode, single, chunk, text, fc, ug, p, g) ==
    IF mode = "fallback" THEN fallback_chunk(chunk, text, fc, ug, g)
    ELSE IF single THEN primary_chunk(TRUE, chunk, text, fc, ug, p, g)
    ELSE IF ug THEN google_chunk(chunk, text, fc, ug, g)
    ELSE primary_chunk(FALSE, chunk, text, fc, ug, p, g)

\* Mutant: the key is built from the whole text
cache_key_full_text(text, to_lang, from_lang) ==
    text \o <<UNDERSCORE>> \o from_lang \o <<UNDERSCORE>> \o to_lang

\* line 161: f"{text[:30]}_{from_lang}_{to_lang}"
cache_key(text, to_lang, from_lang) ==
    Slice(text, 0, KeyPrefixLen) \o <<UNDERSCORE>> \o from_lang \o <<UNDERSCORE>> \o to_lang

\* Mutant: a result that begins like the text of the key is not stored
cache_put_translated_only(cache, key, translated) ==
    IF Slice(translated, 0, KeyPrefixLen) = Slice(key, 0, KeyPrefixLen) THEN cache
    ELSE [k \in DOMAIN cache \cup {key} |-> IF k = key THEN translated ELSE cache[k]]

\* Mutant: the result is not stored
cache_put_dropped(cache, key, translated) == cache

\* lines 178, 190, 218, 227, 277: self.translation_cache[cache_key] = translated
cache_put(cache, key, translated) ==
    [k \in DOMAIN cache \cup {key} |-> IF k = key THEN translated ELSE cache[k]]

\* Mutant: the chunk results are joined without a separator
assemble_unseparated(translated_chunks) == Concat(translated_chunks)

\* lines 175-191 and 272-278: the string built from the chunk results
assemble(translated_chunks) ==
    IF Len(translated_chunks) = 1 THEN translated_chunks[1]
    ELSE join_space(translated_chunks)

-----------------------------------------------------------------------------
(* The texts and requests of a session *)

LETTER_A == UpperChar(97) + 32   \* 'a'
HEAD == Rep(LETTER_A, KeyPrefixLen)
\* 31 characters
TITLE == HEAD \o <<98>>
\* 910 characters that start with the first 30 of TITLE and differ in the 31st,
\* in three sentences: three chunks of at most 450 (400, 401 and 109
\* characters), two chunks of at most 900 (801 and 109 characters)
LONG == HEAD \o <<99>> \o Rep(LETTER_A, 368) \o <<DOT, SP>>
             \o Rep(LETTER_A, 399) \o <<DOT, SP>> \o Rep(LETTER_A, 108)
\* 30 characters that differ from TITLE in the 30th only
NEAR == Rep(LETTER_A, KeyPrefixLen - 1) \o <<98>>

\* 32 characters: the first 30 of TITLE, then U+4F60 U+597D
CN_TAIL == HEAD \o NI_HAO

Request(text, to_lang, from_lang) ==
    [text |-> text, to_lang |-> to_lang, from_lang |-> from_lang]

Requests ==
    { Request(<<>>, ZH, EN),
      Request(CN_TAIL, ZH, EN),
      Request(NEAR, ZH, EN),
      Request(NEAR, ZH, FR),
      Request(NEAR, JA, EN),
      Request(TITLE, ZH, EN),
      Request(LONG, ZH, EN) }

Texts == { r.text : r \in Requests }

\* chunk_text on the texts of the session, computed once
Chunks450 == [t \in Texts |-> chunk_text(t, PrimaryChunkSize)]
\* Mutant: the fallback path chunks with the default size of chunk_text
ChunksFallbackAtDefaultSize == [t \in Texts |-> chunk_text(t, PrimaryChunkSize)]

\* line 173: chunk_text(text, max_chunk_size=900)
Chunks900 == [t \in Texts |-> chunk_text(t, GoogleChunkSize)]

-----------------------------------------------------------------------------
(* The state machine *)

\* A thread's record: where it is in translate_text (pc), the call's
\* arguments and locals, what the call returned, and what is recorded about
\* it: seq numbers the call, fc0 and ug0 are translation_fail_count and
\* use_google_translate when it began, nPrimary and nGoogle count its backend
\* invocations, trace lists per chunk what the backends did, requested lists
\* the paper ids asked of Semantic Scholar and sem is what that request did;
\* loaded is the value of translation_fail_count read by a += that has not
\* stored yet
NoCall ==
    [pc |-> "idle", path |-> "none", seq |-> 0,
     text |-> <<>>, to_lang |-> <<>>, from_lang |-> <<>>,
     cache_key |-> <<>>, chunks |-> <<>>, translated_chunks |-> <<>>,
     ret |-> <<>>, raised |-> FALSE, meta |-> <<>>, requested |-> <<>>,
     fc0 |-> 0, ug0 |-> FALSE, nPrimary |-> 0, nGoogle |-> 0, trace |-> <<>>,
     sem |-> [exc |-> NoExc, status |-> 0], loaded |-> 0]

\* The record of a call of translate_text(req) that is beginning
Begin(path, req) ==
    [NoCall EXCEPT !.path = path, !.seq = ncalls + 1,
                   !.text = req.text, !.to_lang = req.to_lang, !.from_lang = req.from_lang,
                   !.fc0 = translation_fail_count, !.ug0 = use_google_translate]

RequestOf(c) == Request(c.text, c.to_lang, c.from_lang)

\* history: the call c returned ret
Answer(c, ret) ==
    LET req == RequestOf(c)
        n == c.nPrimary + c.nGoogle
    IN  IF req \in DOMAIN answered
        THEN [answered EXCEPT ![req] = [ret |-> @.ret, n |-> @.n + n, calls |-> 2]]
        ELSE [r \in DOMAIN answered \cup {req} |->
                 IF r = req THEN [ret |-> ret, n |-> n, calls |-> 1] ELSE answered[r]]

\* __init__, lines 13-16
InitEnricher ==
    /\ translation_cache = <<>>
    /\ translation_fail_count = 0
    /\ use_google_translate = FALSE

NoChunkCall == [text |-> <<>>, max_chunk_size |-> 0, done |-> FALSE]

\* No call of get_paper_details yet
NoDetails == [pc |-> "none"]

\* No call of ArxivClient.search yet
NoSearch == [pc |-> "none"]

\* The client and the application before any request
AppInit ==
    /\ search = NoSearch
    /\ download_states = <<>>
    /\ download_messages = <<>>
    /\ thread = <<>>
    /\ started = <<>>
    /\ attempts = <<>>
    /\ files = {}
    /\ nbatch = 0
    /\ papers = <<>>
    /\ manager = [pc |-> "none"]

\* The locals of chunk_text when it is run line by line: pc is "entry" before
\* line 76, "loop" at the while test of line 82, "done" after the return
NoLoop == [pc |-> "entry", start |-> 0, chunks |-> <<>>]

Init ==
    /\ InitEnricher
    /\ call = [t \in {1} |-> NoCall]
    /\ ncalls = 0
    /\ writer = <<>>
    /\ answered = <<>>
    /\ chunk_in = NoChunkCall
    /\ chunk_out = <<>>
    /\ loop = NoLoop
    /\ details = NoDetails
    /\ AppInit

\* Mutant: the test for the empty text is missing
is_empty_never(text) == FALSE

\* line 152: `not text`
is_empty(text) == Len(text) = 0

\* lines 152-153: empty text
TranslateEmpty(t, req) ==
    LET c == [Begin("empty", req) EXCEPT !.ret = <<>>]
    IN  /\ is_empty(req.text)
        /\ call' = [call EXCEPT ![t] = c]
        /\ answered' = Answer(c, c.ret)
        /\ UNCHANGED <<translation_cache, translation_fail_count, use_google_translate>>

\* lines 155-158: the text is Chinese already
TranslateChinese(t, req) ==
    LET c == [Begin("chinese", req) EXCEPT !.ret = req.text]
    IN  /\ ~is_empty(req.text)
        /\ req.to_lang = ZH /\ contains_chinese(req.text)
        /\ call' = [call EXCEPT ![t] = c]
        /\ answered' = Answer(c, c.ret)
        /\ UNCHANGED <<translation_cache, translation_fail_count, use_google_translate>>

NeedsTranslation(req) ==
    /\ ~is_empty(req.text)
    /\ ~(req.to_lang = ZH /\ contains_chinese(req.text))

\* Mutant: the threshold of line 167 is tested before the cache is looked at
TranslateCachedAfterThreshold(t, req) ==
    LET key == cache_key(req.text, req.to_lang, req.from_lang)
        c == [Begin("hit", req) EXCEPT !.cache_key = key, !.ret = translation_cache[key]]
    IN  /\ NeedsTranslation(req)
        /\ key \in DOMAIN translation_cache
        /\ call' = [call EXCEPT ![t] = c]
        /\ answered' = Answer(c, c.ret)
        /\ use_google_translate' =
              (translation_fail_count >= ThresholdFailCount \/ use_google_translate)
        /\ UNCHANGED <<translation_cache, translation_fail_count>>

\* lines 160-164: cache hit
TranslateCached(t, req) ==
    LET key == cache_key(req.text, req.to_lang, req.from_lang)
        c == [Begin("hit", req) EXCEPT !.cache_key = key, !.ret = translation_cache[key]]
    IN  /\ NeedsTranslation(req)
        /\ key \in DOMAIN translation_cache
        /\ call' = [call EXCEPT ![t] = c]
        /\ answered' = Answer(c, c.ret)
        /\ UNCHANGED <<translation_cache, translation_fail_count, use_google_translate>>

\* Mutant: the threshold is compared with > instead of >=
UseFallbackAboveThreshold(fail_count, use_google) ==
    fail_count > ThresholdFailCount \/ use_google

\* line 167: the primary backend is given up
UseFallback(fail_count, use_google) ==
    fail_count >= ThresholdFailCount \/ use_google

\* lines 166-173: enter the fallback path
TranslateFallback(t, req) ==
    LET key == cache_key(req.text, req.to_lang, req.from_lang)
    IN  /\ NeedsTranslation(req)
        /\ key \notin DOMAIN translation_cache
        /\ UseFallback(translation_fail_count, use_google_translate)
        /\ use_google_translate' = TRUE
        /\ call' = [call EXCEPT ![t] =
                [Begin("fallback", req) EXCEPT !.pc = "chunks", !.cache_key = key,
                                               !.chunks = Chunks900[req.text]]]
        /\ UNCHANGED <<translation_cache, translation_fail_count, answered>>

\* lines 196-199: enter the primary path
TranslatePrimary(t, req) ==
    LET key == cache_key(req.text, req.to_lang, req.from_lang)
    IN  /\ NeedsTranslation(req)
        /\ key \notin DOMAIN translation_cache
        /\ ~UseFallback(translation_fail_count, use_google_translate)
        /\ call' = [call EXCEPT ![t] =
                [Begin("primary", req) EXCEPT !.pc = "chunks", !.cache_key = key,
                                              !.chunks = Chunks450[req.text]]]
        /\ UNCHANGED <<translation_cache, translation_fail_count, use_google_translate,
                       answered>>

\* translate_text is called: lines 148-199
TranslateText(t) ==
    /\ call[t].pc = "idle"
    /\ ncalls < MaxCalls
    /\ ncalls' = ncalls + 1
    /\ \E req \in Requests :
          \/ TranslateEmpty(t, req)
          \/ TranslateChinese(t, req)
          \/ TranslateCached(t, req)
          \/ TranslateFallback(t, req)
          \/ TranslatePrimary(t, req)
    /\ UNCHANGED <<writer, chunk_vars, details, app_vars>>

\* The next chunk is translated (one iteration of the loops at 183 and 236,
\* or the single chunk of 177 and 204-230); after the last chunk the result
\* is assembled, cached and returned
TranslateChunk(t) ==
    /\ call[t].pc = "chunks"
    /\ \E p \in PrimaryOutcomes, g \in GoogleOutcomes :
        LET c == call[t]
            i == Len(c.translated_chunks) + 1
            r == translate_chunk(c.path, Len(c.chunks) = 1, c.chunks[i], c.text,
                                 translation_fail_count, use_google_translate, p, g)
            d == [c EXCEPT !.nPrimary = @ + r.nP, !.nGoogle = @ + r.nG,
                           !.trace = Append(@, r.tr)]
            results == Append(c.translated_chunks, r.val)
            translated == assemble(results)
        IN  /\ translation_fail_count' = r.fc
            /\ use_google_translate' = r.ug
            /\ IF r.out = "raise"
               THEN /\ call' = [call EXCEPT ![t] = [d EXCEPT !.pc = "idle", !.raised = TRUE]]
                    /\ UNCHANGED <<translation_cache, writer, answered>>
               ELSE IF r.out = "return"
               THEN /\ call' = [call EXCEPT ![t] = [d EXCEPT !.pc = "idle", !.ret = r.val]]
                    /\ answered' = Answer(d, r.val)
                    /\ UNCHANGED <<translation_cache, writer>>
               ELSE IF i < Len(c.chunks)
               THEN /\ call' = [call EXCEPT ![t] = [d EXCEPT !.translated_chunks = results]]
                    /\ UNCHANGED <<translation_cache, writer, answered>>
               ELSE /\ translation_cache' = cache_put(translation_cache, c.cache_key, translated)
                    /\ writer' =
                          [k \in DOMAIN writer \cup {c.cache_key} |->
                              IF k = c.cache_key THEN RequestOf(c) ELSE writer[k]]
                    /\ call' = [call EXCEPT ![t] =
                          [d EXCEPT !.pc = "idle", !.translated_chunks = results,
                                    !.ret = translated]]
                    /\ answered' = Answer(d, translated)
    /\ UNCHANGED <<ncalls, chunk_vars, details, app_vars>>

\* Mutant: a failed Semantic Scholar request counts as a translation failure
EnrichCountingFailures(t) ==
    /\ call[t].pc = "idle"
    /\ ncalls < MaxCalls
    /\ ncalls' = ncalls + 1
    /\ \E arxiv_id \in ArxivIds, o \in SemanticOutcomes :
        LET r == enrich_with_semantic_scholar(arxiv_id, o)
        IN  /\ call' = [call EXCEPT ![t] =
                [NoCall EXCEPT !.path = "enrich", !.seq = ncalls + 1,
                               !.fc0 = translation_fail_count,
                               !.ug0 = use_google_translate,
                               !.raised = r.exc # NoExc, !.meta = r.val,
                               !.requested = << strip_prefix(arxiv_id) >>,
                               !.sem = [exc |-> o.exc, status |-> o.status]]]
            /\ translation_fail_count' =
                  IF o.exc # NoExc THEN translation_fail_count + 1
                  ELSE translation_fail_count
    /\ UNCHANGED <<translation_cache, use_google_translate,
                   writer, answered, chunk_vars, details, app_vars>>

\* enrich_with_semantic_scholar(arxiv_id) is called and returns
Enrich(t) ==
    /\ call[t].pc = "idle"
    /\ ncalls < MaxCalls
    /\ ncalls' = ncalls + 1
    /\ \E arxiv_id \in ArxivIds, o \in SemanticOutcomes :
        LET r == enrich_with_semantic_scholar(arxiv_id, o)
        IN  call' = [call EXCEPT ![t] =
                [NoCall EXCEPT !.path = "enrich", !.seq = ncalls + 1,
                               !.fc0 = translation_fail_count,
                               !.ug0 = use_google_translate,
                               !.raised = r.exc # NoExc, !.meta = r.val,
                               !.requested = << strip_prefix(arxiv_id) >>,
                               !.sem = [exc |-> o.exc, status |-> o.status]]]
    /\ UNCHANGED <<translation_cache, translation_fail_count, use_google_translate,
                   writer, answered, chunk_vars, details, app_vars>>

\* chunk_text(text, max_chunk_size) is applied to the harness arguments
ChunkText ==
    /\ ~chunk_in.done
    /\ chunk_out' = chunk_text(chunk_in.text, chunk_in.max_chunk_size)
    /\ chunk_in' = [chunk_in EXCEPT !.done = TRUE]
    /\ UNCHANGED <<translation_cache, translation_fail_count, use_google_translate,
                   call, ncalls, writer, answered, loop, details, app_vars>>

Next ==
    \/ \E t \in DOMAIN call : TranslateText(t)
    \/ \E t \in DOMAIN call : TranslateChunk(t)
    \/ \E t \in DOMAIN call : Enrich(t)

Spec == Init /\ [][Next]_vars

-----------------------------------------------------------------------------
(* ArxivClient.get_paper_details, src/arxiv_client.py lines 201-273, for a  *)
(* paper id without the 'doi:' prefix.  The call runs translate_text twice  *)
(* and enrich_with_semantic_scholar once on the client's MetadataEnricher.  *)

\* translate_text from the chunk at hand to its end: the loops of lines 183
\* and 236 with the backends answering p and g on every chunk.  (The result
\* of the chunk is bound by a one-element set so that it is computed once.)
RECURSIVE translate_chunks(_, _, _, _, _, _, _, _)
translate_chunks(mode, text, chunks, results, fc, ug, p, g) ==
    CHOOSE end \in
        { IF r.out = "value" /\ Len(results) + 1 < Len(chunks)
          THEN translate_chunks(mode, text, chunks, Append(results, r.val),
                                r.fc, r.ug, p, g)
          ELSE [out |-> r.out,
                val |-> IF r.out = "value" THEN assemble(Append(results, r.val))
                        ELSE r.val,
                fc |-> r.fc, ug |-> r.ug] :
          r \in { translate_chunk(mode, Len(chunks) = 1, chunks[Len(results) + 1],
                                  text, fc, ug, p, g) } } : TRUE

\* metadata_enricher.py lines 148-286 as one call: what it returns and the
\* cache, the fail count and the flag it leaves
translate_text(text, to_lang, from_lang, cache, fc, ug, p, g) ==
    LET key == cache_key(text, to_lang, from_lang)
        Returns(ret) == [ret |-> ret, raised |-> FALSE, cache |-> cache, fc |-> fc, ug |-> ug]
    IN  IF is_empty(text) THEN Returns(<<>>)
        ELSE IF to_lang = ZH /\ contains_chinese(text) THEN Returns(text)
        ELSE IF key \in DOMAIN cache THEN Returns(cache[key])
        ELSE CHOOSE end \in
                { [ret |-> r.val, raised |-> r.out = "raise",
                   cache |-> IF r.out = "value" THEN cache_put(cache, key, r.val)
                             ELSE cache,
                   fc |-> r.fc, ug |-> r.ug] :
                  r \in { IF UseFallback(fc, ug)
                          THEN translate_chunks("fallback", text, Chunks900[text], <<>>,
                                                fc, TRUE, p, g)
                          ELSE translate_chunks("primary", text, Chunks450[text], <<>>,
                                                fc, ug, p, g) } } : TRUE

\* Mutant: the record is replaced by the enrichment data
dict_update_replacing(d, other) == other

\* dict.update(other), line 264, and d[k] = v as update({k: v})
dict_update(d, other) ==
    [k \in DOMAIN d \cup DOMAIN other |-> IF k \in DOMAIN other THEN other[k] ELSE d[k]]

\* arxiv_client.py lines 228-241: the record built from an arxiv.Result
paper_data(paper) ==
    [id |-> paper.short_id, title |-> paper.title, authors |-> paper.authors,
     summary |-> paper.summary, published |-> paper.published,
     updated |-> paper.updated, categories |-> paper.categories,
     pdf_url |-> paper.pdf_url, arxiv_url |-> paper.entry_id,
     comment |-> paper.comment, journal_ref |-> paper.journal_ref,
     source |-> "arxiv"]

ArxivResult(title, summary) ==
    [short_id |-> PAPER_ID, title |-> title, authors |-> <<"A. Author">>,
     summary |-> summary, published |-> "2021-01-01", updated |-> "2021-02-01",
     categories |-> <<"cs.CL">>, pdf_url |-> "http://arxiv.org/pdf/2101",
     entry_id |-> "http://arxiv.org/abs/2101", comment |-> "None",
     journal_ref |-> "None"]

\* line 225: next(self.client.results(search)) gives a result, finds nothing
\* or fails
ArxivOutcomes ==
    { [exc |-> NoExc, paper |-> ArxivResult(TITLE, NEAR)],
      [exc |-> NoExc, paper |-> ArxivResult(CN_TAIL, LONG)],
      [exc |-> "StopIteration", paper |-> <<>>],
      [exc |-> "HTTPError", paper |-> <<>>] }

\* lines 243-257: title_zh and summary_zh; t1 and t2 are the two
\* translate_text calls
translated_paper(base, t1, t2) ==
    IF t1.raised \/ t2.raised
    THEN dict_update(base, [title_zh |-> base.title, summary_zh |-> base.summary])
    ELSE dict_update(base, [title_zh |-> t1.ret, summary_zh |-> t2.ret])

\* lines 259-268: the merge of the enrichment data; e is what
\* enrich_with_semantic_scholar did
merge_enrichment(record, e) ==
    IF e.exc # NoExc THEN record
    ELSE IF DOMAIN e.val # {} THEN dict_update(record, e.val)
    ELSE record

\* The kinds of answers of the backends, one outcome of each kind: a translation,
\* the quota sentinel or an exception of the primary backend; a translation or
\* status 429 of the secondary
PrimaryOutcomeKinds == { p \in PrimaryOutcomes : p.body # SentinelLowerBody }

GoogleOutcomeKinds == { g \in GoogleOutcomes : g.exc = NoExc }

\* get_paper_details('arxiv:' + id) runs on the client's MetadataEnricher
DetailsCall ==
    /\ ncalls < MaxCalls
    /\ ncalls' = ncalls + 1
    /\ \E a \in ArxivOutcomes,
          p1 \in PrimaryOutcomeKinds, g1 \in GoogleOutcomeKinds,
          p2 \in PrimaryOutcomeKinds, g2 \in GoogleOutcomeKinds :
        IF a.exc # NoExc
        THEN /\ details' = [pc |-> "returned", found |-> FALSE,
                            record |-> [error |-> a.exc], before |-> <<>>,
                            sem |-> [exc |-> NoExc, status |-> 0], enrichment |-> <<>>]
             /\ UNCHANGED <<translation_cache, translation_fail_count,
                            use_google_translate>>
        ELSE \E base \in { paper_data(a.paper) } :
             \E t1 \in { translate_text(base.title, ZH, EN, translation_cache,
                                        translation_fail_count, use_google_translate,
                                        p1, g1) } :
             \E t2 \in { IF t1.raised THEN t1
                         ELSE translate_text(base.summary, ZH, EN, t1.cache, t1.fc, t1.ug,
                                             p2, g2) } :
             \E before \in { translated_paper(base, t1, t2) } :
                 /\ translation_cache' = t2.cache
                 /\ translation_fail_count' = t2.fc
                 /\ use_google_translate' = t2.ug
                 /\ \E o \in SemanticOutcomes :
                       LET paper_id == ARXIV_PREFIX \o a.paper.short_id
                           e == enrich_with_semantic_scholar(strip_prefix(paper_id), o)
                       IN  details' =
                             [pc |-> "returned", found |-> TRUE,
                              record |-> IF e.exc # NoExc /\ ~ExceptException(e.exc)
                                         THEN [error |-> e.exc]
                                         ELSE merge_enrichment(before, e),
                              before |-> before,
                              sem |-> [exc |-> o.exc, status |-> o.status],
                              enrichment |-> e.val]
    /\ UNCHANGED <<call, writer, answered, chunk_vars>>

\* get_paper_details('arxiv:' + id) is called and returns
GetPaperDetails == DetailsCall /\ UNCHANGED app_vars

DetailsNext == GetPaperDetails

DetailsSpec == Init /\ [][DetailsNext]_vars

-----------------------------------------------------------------------------
(* Two threads in translate_text on one MetadataEnricher.  The object has  *)
(* no lock, so a thread can be preempted between any two accesses of the    *)
(* shared attributes: the cache lookup (162-164), the test of line 167, the *)
(* test of line 241, the load and the store of `translation_fail_count +=   *)
(* 1` (211, 222, 252, 262) and the cache store are steps of their own.      *)
(* google_translate catches every exception (144-146), so the handlers of   *)
(* lines 192, 229, 268 and 280 are not entered and are left out here.       *)

Threads == {1, 2}

\* What the threads ask for: a title, or (the first thread) a text of three
\* chunks that has the cache key of the title
ConcRequests(t) ==
    IF t = 1 THEN { Request(TITLE, ZH, EN), Request(LONG, ZH, EN) }
    ELSE { Request(TITLE, ZH, EN) }

\* Mutant: the loop over the chunks stops after the first chunk
LoopDoneEarly(translated_chunks, chunks) == Len(translated_chunks) >= 1

\* lines 183, 236: the for loop has run through every chunk (or the single
\* chunk of lines 177, 206 is translated)
LoopDone(translated_chunks, chunks) == Len(translated_chunks) = Len(chunks)

\* The position after a chunk's value is appended
AfterChunk(translated_chunks, chunks) ==
    IF LoopDone(translated_chunks, chunks) THEN "store" ELSE "chunk"

ConcInit ==
    /\ InitEnricher
    /\ call = [t \in Threads |-> NoCall]
    /\ ncalls = 0
    /\ writer = <<>>
    /\ answered = <<>>
    /\ chunk_in = NoChunkCall
    /\ chunk_out = <<>>
    /\ loop = NoLoop
    /\ details = NoDetails
    /\ AppInit

\* lines 148-164: the call begins; empty text, Chinese text and cache hit return
ConcCall(t) ==
    /\ call[t].pc = "idle" /\ call[t].seq = 0
    /\ ncalls' = ncalls + 1
    /\ \E req \in ConcRequests(t) :
        LET key == cache_key(req.text, req.to_lang, req.from_lang)
        IN  call' = [call EXCEPT ![t] =
              IF is_empty(req.text)
              THEN [Begin("empty", req) EXCEPT !.ret = <<>>]
              ELSE IF req.to_lang = ZH /\ contains_chinese(req.text)
              THEN [Begin("chinese", req) EXCEPT !.ret = req.text]
              ELSE IF key \in DOMAIN translation_cache
              THEN [Begin("hit", req) EXCEPT !.cache_key = key,
                                             !.ret = translation_cache[key]]
              ELSE [Begin("none", req) EXCEPT !.pc = "mode", !.cache_key = key]]
    /\ UNCHANGED <<translation_cache, translation_fail_count, use_google_translate,
                   writer, answered, chunk_vars, details, app_vars>>

\* lines 166-173 and 196-199: the path is chosen and the text is chunked
ConcMode(t) ==
    /\ call[t].pc = "mode"
    /\ IF UseFallback(translation_fail_count, use_google_translate)
       THEN /\ use_google_translate' = TRUE
            /\ call' = [call EXCEPT ![t].pc = "chunk", ![t].path = "fallback",
                                    ![t].chunks = Chunks900[call[t].text]]
       ELSE /\ call' = [call EXCEPT ![t].pc = "chunk", ![t].path = "primary",
                                    ![t].chunks = Chunks450[call[t].text]]
            /\ UNCHANGED use_google_translate
    /\ UNCHANGED <<translation_cache, translation_fail_count, ncalls,
                   writer, answered, chunk_vars, details, app_vars>>

\* lines 177, 185, 241-250 and 205-209: the next chunk goes to the secondary
\* backend (fallback path, or line 241 finds the flag set) or to the primary
ConcChunk(t) ==
    /\ call[t].pc = "chunk"
    /\ LET c == call[t]
           chunk == c.chunks[Len(c.translated_chunks) + 1]
       IN  IF c.path = "fallback" \/ (Len(c.chunks) > 1 /\ use_google_translate)
           THEN \E g \in GoogleOutcomeKinds :
                  LET results == Append(c.translated_chunks, google_translate(chunk, g).val)
                  IN  call' = [call EXCEPT
                                 ![t].translated_chunks = results,
                                 ![t].nGoogle = @ + 1,
                                 ![t].trace = Append(@, [p |-> "none", g |-> GoogleTrace(g),
                                                         body |-> <<>>]),
                                 ![t].pc = AfterChunk(results, c.chunks)]
           ELSE \E p \in PrimaryOutcomeKinds :
                  IF p.exc # NoExc
                  THEN call' = [call EXCEPT
                                  ![t].nPrimary = @ + 1,
                                  ![t].trace = Append(@, [p |-> "exc", g |-> "none",
                                                          body |-> p.body]),
                                  ![t].pc = "load_exc"]
                  ELSE IF IsQuotaSentinel(p.body)
                  THEN call' = [call EXCEPT
                                  ![t].nPrimary = @ + 1,
                                  ![t].trace = Append(@, [p |-> "sentinel", g |-> "none",
                                                          body |-> p.body]),
                                  ![t].pc = "load_sentinel"]
                  ELSE LET results == Append(c.translated_chunks, p.body)
                       IN  call' = [call EXCEPT
                                      ![t].translated_chunks = results,
                                      ![t].nPrimary = @ + 1,
                                      ![t].trace = Append(@, [p |-> "ok", g |-> "none",
                                                              body |-> p.body]),
                                      ![t].pc = AfterChunk(results, c.chunks)]
    /\ UNCHANGED <<translation_cache, translation_fail_count, use_google_translate,
                   ncalls, writer, answered, chunk_vars, details, app_vars>>

\* lines 211, 222, 252, 262: `self.translation_fail_count += 1` loads the count
ConcLoad(t) ==
    /\ call[t].pc \in {"load_exc", "load_sentinel"}
    /\ call' = [call EXCEPT
                  ![t].loaded = translation_fail_count,
                  ![t].pc = IF call[t].pc = "load_exc" THEN "store_exc"
                            ELSE "store_sentinel"]
    /\ UNCHANGED <<translation_cache, translation_fail_count, use_google_translate,
                   ncalls, writer, answered, chunk_vars, details, app_vars>>

\* the same lines: the += stores the loaded count plus 1; after a sentinel,
\* lines 212 and 253 set the flag
ConcStore(t) ==
    /\ call[t].pc \in {"store_exc", "store_sentinel"}
    /\ translation_fail_count' = call[t].loaded + 1
    /\ use_google_translate' =
          IF call[t].pc = "store_sentinel" THEN TRUE ELSE use_google_translate
    /\ call' = [call EXCEPT ![t].pc = "google"]
    /\ UNCHANGED <<translation_cache, ncalls, writer, answered, chunk_vars, details, app_vars>>

\* lines 215, 226, 256, 266: the chunk goes to the secondary backend
ConcGoogle(t) ==
    /\ call[t].pc = "google"
    /\ \E g \in GoogleOutcomeKinds :
        LET c == call[t]
            chunk == c.chunks[Len(c.translated_chunks) + 1]
            results == Append(c.translated_chunks, google_translate(chunk, g).val)
        IN  call' = [call EXCEPT
                       ![t].translated_chunks = results,
                       ![t].nGoogle = @ + 1,
                       ![t].trace[Len(c.trace)].g = GoogleTrace(g),
                       ![t].pc = AfterChunk(results, c.chunks)]
    /\ UNCHANGED <<translation_cache, translation_fail_count, use_google_translate,
                   ncalls, writer, answered, chunk_vars, details, app_vars>>

\* lines 178-179, 189-191, 218-219, 227-228, 273-278: the result is put
\* together, stored in the cache and returned
ConcReturn(t) ==
    /\ call[t].pc = "store"
    /\ LET translated == assemble(call[t].translated_chunks)
       IN  /\ translation_cache' = cache_put(translation_cache, call[t].cache_key, translated)
           /\ call' = [call EXCEPT ![t].pc = "idle", ![t].ret = translated]
    /\ UNCHANGED <<translation_fail_count, use_google_translate,
                   ncalls, writer, answered, chunk_vars, details, app_vars>>

ConcNext ==
    \/ \E t \in Threads : ConcCall(t)
    \/ \E t \in Threads : ConcMode(t)
    \/ \E t \in Threads : ConcChunk(t)
    \/ \E t \in Threads : ConcLoad(t)
    \/ \E t \in Threads : ConcStore(t)
    \/ \E t \in Threads : ConcGoogle(t)
    \/ \E t \in Threads : ConcReturn(t)

ConcSpec == ConcInit /\ [][ConcNext]_vars

-----------------------------------------------------------------------------
(* chunk_text as a function: every text over Alphabet of at most MaxTextLen *)
(* characters, every max_chunk_size from 1 to MaxChunkArg                  *)

Alphabet == {LETTER_A, SP, DOT, QUESTION, NL}

TextsUpTo(n) == UNION { [1..k -> Alphabet] : k \in 0..n }

\* Texts of 1000 characters without a sentence terminator: letters, with
\* spaces at any of these offsets
SpaceOffsets == {0, 10, 21, 449, 450, 899, 950}

ParagraphTexts ==
    { [i \in 1..1000 |-> IF (i - 1) \in S THEN SP ELSE LETTER_A] :
         S \in SUBSET SpaceOffsets }

ChunkInit ==
    /\ InitEnricher
    /\ call = [t \in {1} |-> NoCall]
    /\ ncalls = 0
    /\ writer = <<>>
    /\ answered = <<>>
    /\ chunk_in \in { [text |-> text, max_chunk_size |-> m, done |-> FALSE] :
                         text \in TextsUpTo(MaxTextLen), m \in 1..MaxChunkArg }
                  \cup
                  { [text |-> text, max_chunk_size |-> PrimaryChunkSize, done |-> FALSE] :
                         text \in ParagraphTexts }
    /\ chunk_out = <<>>
    /\ loop = NoLoop
    /\ details = NoDetails
    /\ AppInit

ChunkNext == ChunkText

ChunkSpec == ChunkInit /\ [][ChunkNext]_vars

-----------------------------------------------------------------------------
(* chunk_text run line by line: the entry test, then one iteration of the  *)
(* while loop per step                                                     *)

\* lines 75-81: the fast path, or the loop is entered with start = 0
ChunkEnter ==
    /\ loop.pc = "entry"
    /\ IF Len(chunk_in.text) = 0 \/ Len(chunk_in.text) <= chunk_in.max_chunk_size
       THEN /\ chunk_out' = << chunk_in.text >>
            /\ chunk_in' = [chunk_in EXCEPT !.done = TRUE]
            /\ loop' = [loop EXCEPT !.pc = "done"]
       ELSE /\ loop' = [pc |-> "loop", start |-> 0, chunks |-> <<>>]
            /\ UNCHANGED <<chunk_in, chunk_out>>
    /\ UNCHANGED <<translation_cache, translation_fail_count, use_google_translate,
                   call, ncalls, writer, answered, details, app_vars>>

\* lines 82-111: the while test and one pass through the body, or the return
ChunkIter ==
    /\ loop.pc = "loop"
    /\ LET text == chunk_in.text
           max_chunk_size == chunk_in.max_chunk_size
           start == loop.start
       IN  IF ~(start < Len(text))
           THEN /\ chunk_out' = loop.chunks
                /\ chunk_in' = [chunk_in EXCEPT !.done = TRUE]
                /\ loop' = [loop EXCEPT !.pc = "done"]
           ELSE IF start + max_chunk_size >= Len(text)
           THEN LET chunks == Append(loop.chunks, Slice(text, start, Len(text)))
                IN  /\ chunk_out' = chunks
                    /\ chunk_in' = [chunk_in EXCEPT !.done = TRUE]
                    /\ loop' = [loop EXCEPT !.pc = "done", !.chunks = chunks]
           ELSE LET sentence_end == Boundary(text, start, max_chunk_size)
                IN  /\ loop' = [loop EXCEPT
                                  !.chunks = Append(@, Slice(text, start, sentence_end + 1)),
                                  !.start = sentence_end + 1]
                    /\ UNCHANGED <<chunk_in, chunk_out>>
    /\ UNCHANGED <<translation_cache, translation_fail_count, use_google_translate,
                   call, ncalls, writer, answered, details, app_vars>>

ChunkLoopNext == ChunkEnter \/ ChunkIter

ChunkLoopSpec == ChunkInit /\ [][ChunkLoopNext]_vars

\* A call of chunk_text that has begun keeps running: its thread is not
\* stopped between two lines
ChunkLoopFairSpec == ChunkLoopSpec /\ WF_vars(ChunkLoopNext)

-----------------------------------------------------------------------------
(* Properties *)

\* The thread's last translate_text call has ended
Ended(c) == c.pc = "idle" /\ c.path \in {"empty", "chinese", "hit", "fallback", "primary"}

\* The call went through the chunk loop of the fallback or of the primary path
Translated(c) == Ended(c) /\ c.path \in {"fallback", "primary"}

IsString(s) == DOMAIN s = 1..Len(s) /\ \A i \in 1..Len(s) : s[i] \in Nat

\* Both backends failed on chunk i of the call
BothFailed(c, i) == c.trace[i].p \in {"exc", "sentinel"} /\ c.trace[i].g = "fail"

\* C1: translate_text never raises to its caller and always returns a string,
\* whatever the primary and the secondary backend do.
C1_NeverRaises ==
    \A t \in DOMAIN call :
        Ended(call[t]) => ~call[t].raised /\ IsString(call[t].ret)

\* C1 witness: a call has returned although both backends failed on a chunk.
C1_Witness ==
    \E t \in DOMAIN call :
        /\ Translated(call[t])
        /\ \E i \in 1..Len(call[t].trace) : BothFailed(call[t], i)

\* C2: a translate_text call that begins with translation_fail_count >= 3 or
\* with use_google_translate set never invokes the primary backend.
C2_StickyFallback ==
    \A t \in DOMAIN call :
        LET c == call[t]
        IN  (c.path \in {"empty", "chinese", "hit", "fallback", "primary"}
                /\ (c.fc0 >= 3 \/ c.ug0))
            => /\ c.nPrimary = 0
               /\ \A i \in 1..Len(c.trace) : c.trace[i].p = "none"

\* C2 witness: after three primary failures that left use_google_translate
\* false, a later call was translated by the secondary backend alone.
C2_Witness ==
    \E t \in DOMAIN call :
        /\ Translated(call[t])
        /\ call[t].fc0 >= 3 /\ ~call[t].ug0
        /\ call[t].nGoogle >= 1 /\ call[t].nPrimary = 0

\* C3: translation_fail_count starts at 0 and never decreases, and
\* use_google_translate starts false and never goes back to false.
C3_Monotonic ==
    /\ translation_fail_count = 0 /\ use_google_translate = FALSE
    /\ [][/\ translation_fail_count' >= translation_fail_count
          /\ use_google_translate => use_google_translate']_vars

\* C3 witness: the count and the flag have both moved, and an enrich call
\* came after that.
C3_Witness ==
    /\ translation_fail_count >= 2 /\ use_google_translate
    /\ \E t \in DOMAIN call : call[t].path = "enrich"

\* C4 as stated: two calls with identical text and language pair invoke a
\* backend at most once in all, and the second returns the string of the first.
C4_Original ==
    \A t \in DOMAIN call :
        LET c == call[t]
            req == RequestOf(c)
        IN  (Ended(c) /\ req \in DOMAIN answered /\ answered[req].calls = 2)
            => answered[req].n <= 1 /\ c.ret = answered[req].ret

\* C4 amended: a second call with identical text and language pair invokes no
\* backend and returns the string the first call returned (the first call may
\* invoke the backends several times).
C4_SecondCallFromCache ==
    \A t \in DOMAIN call :
        LET c == call[t]
            req == RequestOf(c)
        IN  (Ended(c) /\ req \in DOMAIN answered /\ answered[req].calls = 2)
            => /\ c.nPrimary + c.nGoogle = 0
               /\ c.ret = answered[req].ret

\* C4 witness: a request whose first call invoked the backends three times or
\* more was made again.
C4_Witness ==
    \E t \in DOMAIN call :
        LET req == RequestOf(call[t])
        IN  /\ Ended(call[t])
            /\ req \in DOMAIN answered
            /\ answered[req].calls = 2 /\ answered[req].n >= 3

\* Two requests with the same first 30 characters and the same language pair
SameFingerprint(r1, r2) ==
    /\ Slice(r1.text, 0, 30) = Slice(r2.text, 0, 30)
    /\ r1.to_lang = r2.to_lang
    /\ r1.from_lang = r2.from_lang

\* C5: a call whose text shares its first 30 characters and its language pair
\* with the text of a cached entry returns that entry and invokes no backend;
\* a call that shares them with no entry is not served from the cache.
C5_PrefixKey ==
    [][\A t \in DOMAIN call :
          LET c == call'[t]
              sharing == { k \in DOMAIN translation_cache :
                             SameFingerprint(writer[k], RequestOf(c)) }
          IN  (c.seq # call[t].seq /\ c.path \in {"hit", "fallback", "primary"})
              => IF sharing = {}
                 THEN c.path # "hit"
                 ELSE /\ c.path = "hit" /\ c.pc = "idle"
                      /\ \E k \in sharing : c.ret = translation_cache[k]
                      /\ c.nPrimary = 0 /\ c.nGoogle = 0]_vars

\* C5 witness: a call was served the entry stored for a different text.
C5_Witness ==
    \E t \in DOMAIN call :
        /\ Ended(call[t]) /\ call[t].path = "hit"
        /\ writer[call[t].cache_key].text # call[t].text
        /\ call[t].ret = translation_cache[call[t].cache_key]

\* C6: for to_lang = "zh" and a text with a character in U+4E00..U+9FFF,
\* translate_text returns the text unchanged, invokes no backend and leaves
\* the cache, the fail count and the flag unchanged, whatever the cache holds.
C6_ChineseNoOp ==
    [][\A t \in DOMAIN call :
          LET c == call'[t]
          IN  (/\ c.seq # call[t].seq
               /\ c.path # "enrich"
               /\ c.to_lang = <<122, 104>>
               /\ \E i \in 1..Len(c.text) : c.text[i] >= 19968 /\ c.text[i] <= 40959)
              => /\ c.pc = "idle" /\ ~c.raised
                 /\ c.ret = c.text
                 /\ c.nPrimary = 0 /\ c.nGoogle = 0
                 /\ UNCHANGED <<translation_cache, translation_fail_count,
                                use_google_translate>>]_vars

\* C6 witness: the text was returned unchanged while the cache held another
\* string under the key of that text.
C6_Witness ==
    \E t \in DOMAIN call :
        LET c == call[t]
            key == cache_key(c.text, c.to_lang, c.from_lang)
        IN  /\ Ended(c) /\ c.path = "chinese" /\ c.ret = c.text
            /\ key \in DOMAIN translation_cache
            /\ translation_cache[key] # c.text

\* C7: when both backends fail on a chunk, the call still returns a non-empty
\* string: the chunk results in order, joined by spaces, with the original
\* text of that chunk at its position and the translations of the chunks that
\* succeeded at theirs.
C7_DegradePerChunk ==
    \A t \in DOMAIN call :
        LET c == call[t]
        IN  (Translated(c) /\ \E i \in 1..Len(c.trace) : BothFailed(c, i))
            => /\ ~c.raised /\ c.ret # <<>>
               /\ Len(c.translated_chunks) = Len(c.chunks)
               /\ Len(c.trace) = Len(c.chunks)
               /\ c.ret = join_space(c.translated_chunks)
               /\ \A i \in 1..Len(c.chunks) :
                     /\ BothFailed(c, i) => c.translated_chunks[i] = c.chunks[i]
                     /\ c.trace[i].p = "ok" => c.translated_chunks[i] = c.trace[i].body
                     /\ c.trace[i].g = "ok" => c.translated_chunks[i] = GoogleTranslation

\* C7 witness: a returned string that mixes a translated chunk, an original
\* chunk and a chunk translated by the secondary backend.
C7_Witness ==
    \E t \in DOMAIN call :
        LET c == call[t]
        IN  /\ Translated(c) /\ Len(c.chunks) = 3
            /\ c.trace[1].p = "ok"
            /\ BothFailed(c, 2)
            /\ c.trace[3].g = "ok"
            /\ c.ret = c.trace[1].body \o <<32>> \o c.chunks[2] \o <<32>> \o GoogleTranslation

\* Every backend invocation of the call failed
AllFailed(c) ==
    \A i \in 1..Len(c.trace) :
        /\ c.trace[i].p \in {"exc", "sentinel", "none"}
        /\ c.trace[i].g = "fail"

\* C8 as stated: if every backend call made during a translate_text call
\* fails, the returned string is the original input text.
C8_Original ==
    \A t \in DOMAIN call :
        (Translated(call[t]) /\ AllFailed(call[t])) => call[t].ret = call[t].text

\* C9: when the primary backend returns a text with "MYMEMORY WARNING" or
\* "QUOTA EXCEEDED" in any case, translation_fail_count grows by exactly 1,
\* use_google_translate becomes true and the chunk's value is what
\* google_translate returns for the chunk.
C9_SentinelIsFailure ==
    [][\A t \in DOMAIN call :
          LET c == call'[t]
              i == Len(c.trace)
          IN  (/\ call[t].pc = "chunks"
               /\ i = Len(call[t].trace) + 1
               /\ c.trace[i].p \in {"ok", "sentinel"}
               /\ c.trace[i].body \in {SentinelBody, SentinelLowerBody})
              => /\ translation_fail_count' = translation_fail_count + 1
                 /\ use_google_translate' = TRUE
                 /\ c.trace[i].g \in {"ok", "fail"}
                 /\ Len(c.translated_chunks) >= i
                 /\ c.translated_chunks[i] =
                        IF c.trace[i].g = "ok" THEN GoogleTranslation ELSE c.chunks[i]]_vars

\* C9 witness: the second chunk of a multi-chunk call got the sentinel in
\* lower case and was translated by the secondary backend.
C9_Witness ==
    \E t \in DOMAIN call :
        LET c == call[t]
        IN  /\ Translated(c) /\ Len(c.chunks) = 3
            /\ c.trace[1].p = "ok"
            /\ c.trace[2].body = SentinelLowerBody /\ c.trace[2].g = "ok"
            /\ c.translated_chunks[2] = GoogleTranslation
            /\ translation_fail_count = c.fc0 + 1
            /\ use_google_translate /\ ~c.ug0

\* C10: for every text and every max_chunk_size >= 1, chunk_text returns a
\* non-empty list of chunks in text order, each of at most max_chunk_size
\* characters.
C10_ChunkSizeBound ==
    chunk_in.done =>
        /\ chunk_in.max_chunk_size >= 1
        /\ Len(chunk_out) >= 1
        /\ \A i \in 1..Len(chunk_out) : Len(chunk_out[i]) <= chunk_in.max_chunk_size
        /\ Concat(chunk_out) = chunk_in.text

\* C10 witness: a text without space or sentence end was cut hard into full
\* chunks and a shorter final chunk.
C10_Witness ==
    /\ chunk_in.done
    /\ \A i \in 1..Len(chunk_in.text) : chunk_in.text[i] = LETTER_A
    /\ Len(chunk_out) >= 2
    /\ Len(chunk_out[1]) = chunk_in.max_chunk_size
    /\ Len(chunk_out[Len(chunk_out)]) < chunk_in.max_chunk_size

\* C11: for every text and every max_chunk_size >= 1, each iteration of the
\* chunk_text loop that does not leave the loop advances start by at least 1,
\* whatever the boundary search returned, and the call returns.
C11_Terminates ==
    /\ [][(loop.pc = "loop" /\ loop'.pc = "loop")
            => /\ chunk_in.max_chunk_size >= 1
               /\ loop'.start >= loop.start + 1
               /\ Len(loop'.chunks) = Len(loop.chunks) + 1]_vars
    /\ <>(loop.pc = "done" /\ chunk_in.done)

\* C11 witness: a call has returned after an iteration that cut at a sentence
\* end and an iteration that cut at a space, each advancing start by exactly 1.
C11_Witness ==
    /\ loop.pc = "done" /\ chunk_in.done
    /\ chunk_in.max_chunk_size = 2
    /\ Len(chunk_out) = 3
    /\ chunk_out[1] = <<DOT>>
    /\ chunk_out[2] = <<SP>>

\* Position i (0-based) of the text holds '.', '?' or '!' and position i + 1
\* holds a space or a newline
IsSentenceTerminator(text, i) ==
    /\ i + 2 <= Len(text)
    /\ text[i + 1] \in {46, 63, 33}
    /\ text[i + 2] \in {32, 10}

\* The cut C18 describes for the window [start, start + max_chunk_size)
StatedCut(text, start, max_chunk_size) ==
    LET window == start..(start + max_chunk_size - 1)
        terminators == { i \in window : IsSentenceTerminator(text, i) }
        spaces == { i \in window : i + 1 <= Len(text) /\ text[i + 1] = 32 }
    IN  IF terminators # {} THEN Max(terminators)
        ELSE IF spaces # {} THEN Max(spaces)
        ELSE start + max_chunk_size - 1

\* C18 as stated: in every iteration with more than max_chunk_size characters
\* left, the cut is at the rightmost sentence terminator in the window, else
\* at the rightmost space in the window, else after exactly max_chunk_size
\* characters; the chunk runs from start through the cut and the next chunk
\* starts right after it.
C18_Original ==
    [][(loop.pc = "loop" /\ loop'.pc = "loop")
        => LET cut == StatedCut(chunk_in.text, loop.start, chunk_in.max_chunk_size)
           IN  /\ loop'.start = cut + 1
               /\ loop'.chunks =
                      Append(loop.chunks, Slice(chunk_in.text, loop.start, cut + 1))]_vars

\* C12: whenever the text is empty or no longer than max_chunk_size,
\* chunk_text returns exactly the one-element list [text].
C12_FastPath ==
    (chunk_in.done
        /\ (chunk_in.text = <<>> \/ Len(chunk_in.text) <= chunk_in.max_chunk_size))
    => /\ Len(chunk_out) = 1
       /\ chunk_out[1] = chunk_in.text

\* C12 witness: the empty text came back as the list of one empty string.
C12_Witness ==
    /\ chunk_in.done
    /\ chunk_in.text = <<>>
    /\ chunk_out = << <<>> >>

\* A text of 1000 characters without sentence terminator was chunked at 450
ParagraphChunked ==
    /\ chunk_in.done
    /\ Len(chunk_in.text) = 1000
    /\ chunk_in.max_chunk_size = 450
    /\ \A i \in 0..999 : ~IsSentenceTerminator(chunk_in.text, i)

\* C13 as stated: a text of 1000 characters without sentence terminator is
\* chunked at 450 into exactly 3 chunks, each of at most 450 characters, that
\* together cover the text.
C13_Original ==
    ParagraphChunked
    => /\ Len(chunk_out) = 3
       /\ \A i \in 1..Len(chunk_out) : Len(chunk_out[i]) <= 450
       /\ Concat(chunk_out) = chunk_in.text

\* C13 amended: a text of 1000 characters without sentence terminator is
\* chunked at 450 into at least 3 chunks, each of at most 450 characters, whose
\* concatenation is the text; they are exactly 3, of 450, 450 and 100
\* characters, when the text has no space either.
C13_AtLeastThreeChunks ==
    ParagraphChunked
    => /\ Len(chunk_out) >= 3
       /\ \A i \in 1..Len(chunk_out) : Len(chunk_out[i]) <= 450
       /\ Concat(chunk_out) = chunk_in.text
       /\ (\A i \in 1..1000 : chunk_in.text[i] # 32)
            => /\ Len(chunk_out) = 3
               /\ Len(chunk_out[1]) = 450 /\ Len(chunk_out[2]) = 450
               /\ Len(chunk_out[3]) = 100

\* C13 witness: such a text, with spaces, came back in more than 3 chunks.
C13_Witness ==
    /\ ParagraphChunked
    /\ \E i \in 1..1000 : chunk_in.text[i] = 32
    /\ Len(chunk_out) > 3

\* C14: enrich_with_semantic_scholar never raises and makes at most one
\* external request per call; on a non-200 status or on any exception of the
\* request or of the parsing of its body it returns the empty mapping.
C14_EnrichNeverRaises ==
    \A t \in DOMAIN call :
        LET c == call[t]
        IN  c.path = "enrich"
            => /\ ~c.raised
               /\ Len(c.requested) <= 1
               /\ \A i \in 1..Len(c.requested) : c.requested[i] = <<50, 49, 48, 49>>
               /\ (c.sem.exc # "" \/ c.sem.status # 200) => DOMAIN c.meta = {}
               /\ (c.sem.exc = "" /\ c.sem.status = 200)
                    => DOMAIN c.meta = {"citation_count", "influence_factor", "published_in",
                                        "year", "doi", "url", "is_open_access", "topics"}

\* C14 witness: a request answered 200 with a body that is not JSON gave the
\* empty mapping.
C14_Witness ==
    \E t \in DOMAIN call :
        /\ call[t].path = "enrich"
        /\ call[t].sem = [exc |-> "JSONDecodeError", status |-> 200]
        /\ DOMAIN call[t].meta = {}
        /\ ~call[t].raised

\* The fields of the record before the merge: those of lines 228-241, then
\* title_zh and summary_zh
BaseFields ==
    {"id", "title", "authors", "summary", "published", "updated", "categories",
     "pdf_url", "arxiv_url", "comment", "journal_ref", "source", "title_zh", "summary_zh"}

EnrichmentFields ==
    {"citation_count", "influence_factor", "published_in", "year", "doi", "url",
     "is_open_access", "topics"}

\* C15: in get_paper_details, when the enrichment fails or returns the empty
\* mapping, the returned record is exactly the record built before it (base
\* fields, title_zh, summary_zh); when it succeeds, every field present before
\* keeps its value and only enrichment fields are added; the result is never
\* an error record because of the enrichment.
C15_MergeAdditive ==
    (details.pc = "returned" /\ details.found)
    => /\ DOMAIN details.before = BaseFields
       /\ "error" \notin DOMAIN details.record
       /\ \A k \in DOMAIN details.before :
             k \in DOMAIN details.record /\ details.record[k] = details.before[k]
       /\ (details.sem.exc # "" \/ details.sem.status # 200)
            => DOMAIN details.record = DOMAIN details.before
       /\ (details.sem.exc = "" /\ details.sem.status = 200)
            => /\ DOMAIN details.record = BaseFields \cup EnrichmentFields
               /\ \A k \in EnrichmentFields :
                     details.record[k] = details.enrichment[k]

\* C15 witness: a record that got the enrichment fields, with a summary that
\* was translated in several chunks.
C15_Witness ==
    /\ details.pc = "returned" /\ details.found
    /\ details.sem = [exc |-> "", status |-> 200]
    /\ Len(details.record.summary) > 900
    /\ details.record.summary_zh # details.record.summary
    /\ details.record.citation_count = 12
    /\ details.record.title_zh = details.before.title_zh

\* The number of primary failures (exception or sentinel) of a call so far
RECURSIVE PrimaryFailures(_)
PrimaryFailures(trace) ==
    IF Len(trace) = 0 THEN 0
    ELSE (IF trace[1].p \in {"exc", "sentinel"} THEN 1 ELSE 0) + PrimaryFailures(Tail(trace))

\* The primary failures of all threads together
AllPrimaryFailures ==
    LET RECURSIVE Sum(_)
        Sum(S) == IF S = {} THEN 0
                  ELSE LET t == CHOOSE x \in S : TRUE
                       IN  PrimaryFailures(call[t].trace) + Sum(S \ {t})
    IN  Sum(DOMAIN call)

\* The call of the thread has stored and returned its result under key k
ReturnedUnder(c, k) ==
    /\ c.pc = "idle" /\ c.path \in {"fallback", "primary"}
    /\ c.cache_key = k

\* C16: with two threads in translate_text on one MetadataEnricher the state
\* is never corrupted: translation_fail_count is a natural number no greater
\* than the number of primary failures, use_google_translate is a boolean, and
\* every cache value is the complete result (the results of all its chunks,
\* joined) that one of the calls with that key returned.  That an increment
\* can be lost is what the witness shows.
C16_NoCorruption ==
    /\ translation_fail_count \in Nat
    /\ translation_fail_count <= AllPrimaryFailures
    /\ use_google_translate \in BOOLEAN
    /\ \A k \in DOMAIN translation_cache :
          \E t \in DOMAIN call :
              /\ ReturnedUnder(call[t], k)
              /\ translation_cache[k] = call[t].ret
              /\ Len(call[t].translated_chunks) = Len(call[t].chunks)
              /\ translation_cache[k] = join_space(call[t].translated_chunks)

\* C16 witness: both threads have returned, each had a primary failure, and
\* translation_fail_count is smaller than the number of primary failures.
C16_Witness ==
    /\ \A t \in DOMAIN call :
          /\ call[t].pc = "idle" /\ call[t].path = "primary"
          /\ PrimaryFailures(call[t].trace) >= 1
    /\ Cardinality(DOMAIN call) = 2
    /\ translation_fail_count < AllPrimaryFailures

\* C17: translate_text with the empty text returns the empty string at once,
\* before any other check: it invokes no backend and leaves the cache,
\* translation_fail_count and use_google_translate unchanged.
C17_EmptyShortCircuit ==
    [][\A t \in DOMAIN call :
          LET c == call'[t]
          IN  (c.seq # call[t].seq /\ c.path # "enrich" /\ Len(c.text) = 0)
              => /\ c.pc = "idle" /\ ~c.raised
                 /\ c.ret = <<>>
                 /\ c.nPrimary = 0 /\ c.nGoogle = 0
                 /\ c.chunks = <<>>
                 /\ UNCHANGED <<translation_cache, translation_fail_count,
                                use_google_translate>>]_vars

\* C17 witness: the empty text was returned by a call that began with three
\* failures counted and the flag not set, and the flag is still not set.
C17_Witness ==
    \E t \in DOMAIN call :
        /\ Ended(call[t]) /\ call[t].path = "empty"
        /\ call[t].ret = <<>>
        /\ call[t].fc0 >= 3 /\ ~call[t].ug0
        /\ ~use_google_translate

\* C19: in a multi-chunk translation on the primary path, once the primary
\* backend answers chunk i with a sentinel, chunk i and every later chunk of
\* the call go to the secondary backend and the primary backend is not
\* invoked again in that call.
C19_MidCallSwitch ==
    \A t \in DOMAIN call :
        LET c == call[t]
        IN  (c.path = "primary" /\ Len(c.chunks) > 1)
            => \A i \in 1..Len(c.trace) :
                  c.trace[i].p = "sentinel"
                  => /\ c.trace[i].g \in {"ok", "fail"}
                     /\ c.nPrimary <= i
                     /\ \A j \in (i + 1)..Len(c.trace) :
                           /\ c.trace[j].p = "none"
                           /\ c.trace[j].g \in {"ok", "fail"}
                     /\ \A j \in i..Len(c.translated_chunks) :
                           c.translated_chunks[j] =
                              IF c.trace[j].g = "ok" THEN GoogleTranslation ELSE c.chunks[j]

\* C19 witness: the first chunk was translated by the primary backend, the
\* second got the sentinel, and the second and the third were translated by
\* the secondary backend.
C19_Witness ==
    \E t \in DOMAIN call :
        LET c == call[t]
        IN  /\ Translated(c) /\ c.path = "primary" /\ Len(c.chunks) = 3
            /\ c.trace[1].p = "ok"
            /\ c.trace[2].p = "sentinel" /\ c.trace[2].g = "ok"
            /\ c.trace[3].p = "none" /\ c.trace[3].g = "ok"
            /\ c.nPrimary = 2 /\ c.nGoogle = 2

\* C20: a call that passes the empty, Chinese and cache checks with
\* translation_fail_count >= 3 or use_google_translate set uses the secondary
\* backend only, chunks the text with max size 900, sets use_google_translate
\* (also when only the count sent it there) and stores its result in the cache.
C20_FallbackMode ==
    \A t \in DOMAIN call :
        LET c == call[t]
        IN  /\ (c.path \in {"fallback", "primary"})
                => (c.path = "fallback" <=> (c.fc0 >= 3 \/ c.ug0))
            /\ c.path = "fallback"
                => /\ c.nPrimary = 0
                   /\ \A i \in 1..Len(c.trace) :
                         c.trace[i].p = "none" /\ c.trace[i].g \in {"ok", "fail"}
                   /\ c.chunks = chunk_text(c.text, 900)
                   /\ use_google_translate
                   /\ Ended(c)
                       => /\ ~c.raised
                          /\ c.nGoogle = Len(c.chunks)
                          /\ c.cache_key \in DOMAIN translation_cache
                          /\ translation_cache[c.cache_key] = c.ret

\* C20 witness: a call that began with three failures counted and the flag
\* not set was translated by the secondary backend, set the flag and stored
\* the result.
C20_Witness ==
    \E t \in DOMAIN call :
        LET c == call[t]
        IN  /\ Translated(c) /\ c.path = "fallback"
            /\ c.fc0 >= 3 /\ ~c.ug0
            /\ c.nGoogle = 1 /\ c.nPrimary = 0
            /\ c.ret = GoogleTranslation
            /\ use_google_translate
            /\ translation_cache[c.cache_key] = c.ret

\* What the backends made of chunk i of the call, read from its trace
ChunkValue(c, i) ==
    IF c.trace[i].g = "ok" THEN GoogleTranslation
    ELSE IF c.trace[i].g = "fail" THEN c.chunks[i]
    ELSE c.trace[i].body

RECURSIVE TotalLen(_)
TotalLen(parts) ==
    IF parts = <<>> THEN 0 ELSE Len(parts[1]) + TotalLen(Tail(parts))

\* C21: a call that went through the chunks returns one result per chunk in
\* chunk order, joined by exactly one space when there are several chunks and
\* the chunk's result alone when there is one, and the cache holds the same
\* string under the call's key.
C21_Assembly ==
    \A t \in DOMAIN call :
        LET c == call[t]
            n == Len(c.chunks)
        IN  Translated(c)
            => /\ Len(c.translated_chunks) = n /\ Len(c.trace) = n
               /\ \A i \in 1..n : c.translated_chunks[i] = ChunkValue(c, i)
               /\ Len(c.ret) = TotalLen(c.translated_chunks) + (n - 1)
               /\ IF n = 1
                  THEN c.ret = c.translated_chunks[1]
                  ELSE c.ret = join_space(c.translated_chunks)
               /\ c.cache_key \in DOMAIN translation_cache
               /\ translation_cache[c.cache_key] = c.ret

\* C21 witness: three chunks translated by the primary backend were joined by
\* two spaces and cached.
C21_Witness ==
    \E t \in DOMAIN call :
        LET c == call[t]
        IN  /\ Translated(c) /\ c.path = "primary" /\ Len(c.chunks) = 3
            /\ \A i \in 1..3 : c.trace[i].p = "ok"
            /\ c.ret = PrimaryTranslation \o <<SP>> \o PrimaryTranslation
                           \o <<SP>> \o PrimaryTranslation
            /\ translation_cache[c.cache_key] = c.ret

-----------------------------------------------------------------------------
(* ArxivClient.search, src/arxiv_client.py lines 20-88, with its backup     *)
(* source search_with_crossref, lines 90-199.  Both services are inputs of  *)
(* the model: ArXiv yields some results and may fail after them, CrossRef   *)
(* fails, answers a non-200 status, a body without message.items, or items. *)

MaxArxiv == 3
MaxItems == 2

BackupThreshold == 3
SLASH == 47

DOI_PREFIX == <<100, 111, 105, 58>>                  \* 'doi:'
DOI_A == <<49, 48, 46, 49, SLASH, 97>>               \* "10.1/a"
DOI_B == <<49, 48, 46, 49, UNDERSCORE, 97>>          \* "10.1_a"
DOI_C == <<49, 48, 46, 49, SLASH, 98>>               \* "10.1/b"

\* Sequences over S of at most n elements
SeqsUpTo(S, n) == UNION { [1..k -> S] : k \in 0..n }

\* get_short_id() of the results ArXiv can yield
ArxivShortIds == { PAPER_ID, PAPER_ID \o <<118, 50>> }

\* line 53: the iteration over self.client.results(search) yields the results
\* of ids and then ends (exc = NoExc) or raises
ArxivSearchOutcomes ==
    { [ids |-> ids, exc |-> e] :
        ids \in SeqsUpTo(ArxivShortIds, MaxArxiv), e \in {NoExc, "HTTPError"} }

\* The items of a CrossRef answer: with a DOI and a title, with a DOI that
\* differs from another in a '/' only, without a title, without a DOI
CrossrefItems ==
    { [DOI |-> DOI_A, title |-> << "A" >>],
      [DOI |-> DOI_B, title |-> << "B" >>],
      [DOI |-> DOI_C, title |-> << "C" >>],
      [DOI |-> DOI_C, title |-> << >>],
      [title |-> << "D" >>] }

\* lines 119-131: what the GET on api.crossref.org does
CrossrefOutcomes ==
    { [exc |-> "Timeout", status |-> 0, wellformed |-> FALSE, items |-> <<>>],
      [exc |-> NoExc, status |-> 503, wellformed |-> FALSE, items |-> <<>>],
      [exc |-> NoExc, status |-> 200, wellformed |-> FALSE, items |-> <<>>] }
    \cup { [exc |-> NoExc, status |-> 200, wellformed |-> TRUE, items |-> items] :
              items \in SeqsUpTo(CrossrefItems, MaxItems) }

\* str.replace('/', '_')
replace_slash(s) == [i \in 1..Len(s) |-> IF s[i] = SLASH THEN UNDERSCORE ELSE s[i]]

\* lines 54-65: the record of an ArXiv result
arxiv_paper(short_id) == [id |-> short_id, source |-> "arxiv"]

\* lines 137 and 179-191: the record of a CrossRef item
crossref_paper(item) ==
    [id |-> DOI_PREFIX \o replace_slash(Get(item, "DOI", <<>>)),
     title |-> item.title[1], doi |-> Get(item, "DOI", <<>>), source |-> "crossref"]

\* lines 134-195: the items that have a title, as records
RECURSIVE crossref_papers(_)
crossref_papers(items) ==
    IF items = <<>> THEN <<>>
    ELSE IF "title" \notin DOMAIN Head(items) \/ Head(items).title = <<>>
    THEN crossref_papers(Tail(items))
    ELSE << crossref_paper(Head(items)) >> \o crossref_papers(Tail(items))

\* lines 118-199
search_with_crossref(o) ==
    IF o.exc # NoExc /\ ExceptException(o.exc) THEN <<>>
    ELSE IF o.status # 200 THEN <<>>
    ELSE IF ~o.wellformed THEN <<>>
    ELSE crossref_papers(o.items)

Ids(results) == { results[i].id : i \in 1..Len(results) }

\* lines 78-84: append the backup results whose id is not present yet
RECURSIVE merge_backup(_, _)
merge_backup(results, backup_results) ==
    IF backup_results = <<>> THEN results
    ELSE IF Head(backup_results).id \notin Ids(results)
    THEN merge_backup(Append(results, Head(backup_results)), Tail(backup_results))
    ELSE merge_backup(results, Tail(backup_results))

\* Mutant: the backup source is asked when ArXiv gave at most 3 results
needs_backup_at_most(use_backup, results) ==
    use_backup /\ Len(results) <= BackupThreshold

\* line 73
needs_backup(use_backup, results) ==
    use_backup /\ Len(results) < BackupThreshold

\* No request was sent to CrossRef
NotAsked == [exc |-> NoExc, status |-> 0, wellformed |-> FALSE, items |-> <<>>]

\* search(query, use_backup=...) is called and returns
Search ==
    /\ search.pc = "none"
    /\ \E a \in ArxivSearchOutcomes, use_backup \in BOOLEAN :
        LET results == [i \in 1..Len(a.ids) |-> arxiv_paper(a.ids[i])]
        IN  IF needs_backup(use_backup, results)
            THEN \E o \in CrossrefOutcomes :
                    search' = [pc |-> "returned", use_backup |-> use_backup, arxiv |-> a,
                               consulted |-> TRUE, crossref |-> o,
                               results |-> merge_backup(results, search_with_crossref(o))]
            ELSE search' = [pc |-> "returned", use_backup |-> use_backup, arxiv |-> a,
                            consulted |-> FALSE, crossref |-> NotAsked,
                            results |-> results]
    /\ UNCHANGED <<translation_cache, translation_fail_count, use_google_translate,
                   call, ncalls, writer, answered, chunk_vars, details, download_vars>>

SearchNext == Search

SearchSpec == Init /\ [][SearchNext]_vars

\* The CrossRef request of the call delivered no list of items
CrossrefFailed(o) == o.exc # NoExc \/ o.status # 200 \/ ~o.wellformed

\* The ids CrossRef delivered with a title, as search_with_crossref names them
DeliveredIds(o) ==
    { DOI_PREFIX \o replace_slash(Get(o.items[i], "DOI", <<>>)) :
        i \in { j \in 1..Len(o.items) :
                  "title" \in DOMAIN o.items[j] /\ o.items[j].title # <<>> } }

\* C22: search asks CrossRef only when use_backup is set and ArXiv yielded
\* fewer than 3 results (also after an ArXiv error); the ArXiv results come
\* first in their order, each CrossRef result follows them at most once per id
\* and only if the id was not present, and a CrossRef failure leaves the
\* ArXiv results as they are.
C22_SearchFallback ==
    search.pc = "returned" =>
        LET n == Len(search.arxiv.ids)
            results == search.results
        IN  /\ search.consulted <=> (search.use_backup /\ n < 3)
            /\ Len(results) >= n
            /\ \A i \in 1..n :
                  results[i].id = search.arxiv.ids[i] /\ results[i].source = "arxiv"
            /\ \A i \in (n + 1)..Len(results) :
                  /\ results[i].source = "crossref"
                  /\ results[i].id \in DeliveredIds(search.crossref)
                  /\ \A j \in 1..(i - 1) : results[j].id # results[i].id
            /\ ~search.consulted => Len(results) = n
            /\ (search.consulted /\ ~CrossrefFailed(search.crossref))
                  => DeliveredIds(search.crossref) \subseteq Ids(results)
            /\ (search.consulted /\ CrossrefFailed(search.crossref)) => Len(results) = n

\* C22 witness: ArXiv failed after two results, and of two CrossRef items
\* whose ids are the same after '/' became '_' only the first was appended.
C22_Witness ==
    /\ search.pc = "returned" /\ search.consulted
    /\ search.arxiv.exc # NoExc /\ Len(search.arxiv.ids) = 2
    /\ Len(search.crossref.items) = 2
    /\ \A i \in 1..2 : search.crossref.items[i].title # <<>>
    /\ search.crossref.items[1].title # search.crossref.items[2].title
    /\ Len(search.results) = 3
    /\ search.results[3].title = search.crossref.items[1].title[1]

-----------------------------------------------------------------------------
(* The other methods of MetadataEnricher called on their own between the   *)
(* calls of translate_text: chunk_text (64-111), contains_chinese (58-62)  *)
(* and google_translate (113-146).  None of them assigns an attribute of   *)
(* self.                                                                   *)

\* The record of a call of one of these methods
HelperCall(method, text) ==
    [NoCall EXCEPT !.path = method, !.seq = ncalls + 1, !.text = text,
                   !.fc0 = translation_fail_count, !.ug0 = use_google_translate]

\* chunk_text(text) or chunk_text(text, max_chunk_size=900) is called and returns
ChunkTextCall(t) ==
    /\ call[t].pc = "idle"
    /\ ncalls < MaxCalls
    /\ ncalls' = ncalls + 1
    /\ \E text \in {TITLE, LONG}, table \in {Chunks450, Chunks900} :
          call' = [call EXCEPT ![t] =
                      [HelperCall("chunk_text", text) EXCEPT !.chunks = table[text]]]
    /\ UNCHANGED <<translation_cache, translation_fail_count, use_google_translate,
                   writer, answered, chunk_vars, details, app_vars>>

\* contains_chinese(text) is called and returns
ContainsChineseCall(t) ==
    /\ call[t].pc = "idle"
    /\ ncalls < MaxCalls
    /\ ncalls' = ncalls + 1
    /\ \E text \in {TITLE, CN_TAIL} :
          call' = [call EXCEPT ![t] =
                      [HelperCall("contains_chinese", text)
                          EXCEPT !.meta = [result |-> contains_chinese(text)]]]
    /\ UNCHANGED <<translation_cache, translation_fail_count, use_google_translate,
                   writer, answered, chunk_vars, details, app_vars>>

\* google_translate(text) is called and returns or raises
GoogleTranslateCall(t) ==
    /\ call[t].pc = "idle"
    /\ ncalls < MaxCalls
    /\ ncalls' = ncalls + 1
    /\ \E o \in GoogleOutcomes :
        LET r == google_translate(TITLE, o)
        IN  call' = [call EXCEPT ![t] =
                        [HelperCall("google_translate", TITLE)
                            EXCEPT !.ret = r.val, !.raised = r.exc # NoExc,
                                   !.nGoogle = 1,
                                   !.trace = << [p |-> "none", g |-> GoogleTrace(o),
                                                 body |-> <<>>] >>]]
    /\ UNCHANGED <<translation_cache, translation_fail_count, use_google_translate,
                   writer, answered, chunk_vars, details, app_vars>>

HelperNext ==
    \/ Next
    \/ \E t \in DOMAIN call : ChunkTextCall(t)
    \/ \E t \in DOMAIN call : ContainsChineseCall(t)
    \/ \E t \in DOMAIN call : GoogleTranslateCall(t)

HelperSpec == Init /\ [][HelperNext]_vars

\* The methods of MetadataEnricher other than translate_text
OtherMethods == {"enrich", "chunk_text", "contains_chinese", "google_translate"}

\* C23: a call of enrich_with_semantic_scholar, chunk_text, contains_chinese
\* or google_translate leaves translation_cache, translation_fail_count and
\* use_google_translate as they were, whatever the call's outcome.
C23_OnlyTranslateTextMutates ==
    [][\A t \in DOMAIN call :
          (call'[t].seq # call[t].seq /\ call'[t].path \in OtherMethods)
          => /\ translation_cache' = translation_cache
             /\ translation_fail_count' = translation_fail_count
             /\ use_google_translate' = use_google_translate]_vars

\* C23 witness: after a translation that counted a failure, set the flag and
\* filled the cache, a request of one of the other methods failed and the
\* session state is what it was when that call began.
C23_Witness ==
    \E t \in DOMAIN call :
        LET c == call[t]
        IN  /\ c.path \in OtherMethods /\ c.seq = 2
            /\ \/ c.path = "google_translate" /\ c.trace[1].g = "fail"
               \/ c.path = "enrich" /\ c.sem.exc # NoExc
            /\ c.fc0 >= 1 /\ c.ug0
            /\ translation_fail_count = c.fc0 /\ use_google_translate
            /\ translation_cache # <<>>

-----------------------------------------------------------------------------
(* The download of a paper in the web application: the download button of   *)
(* the detail view (src/app.py lines 393-409), the thread it starts         *)
(* (download_paper_async, 112-141), ArxivClient.download (arxiv_client.py   *)
(* 380-432), PaperManager.add_paper (paper_manager.py 112-134) and the      *)
(* batch download form (app.py 434-473).                                    *)

MaxBatch == 1

\* The paper ids of the session: one of ArXiv, one of CrossRef
AppIds == { PAPER_ID, DOI_PREFIX \o replace_slash(DOI_A) }

\* f[k] of a history counter that has no entry before its first increment
Count(f, k) == IF k \in DOMAIN f THEN f[k] ELSE 0

\* d[k] = v of a Python dict
Put(d, k, v) == [x \in DOMAIN d \cup {k} |-> IF x = k THEN v ELSE d[x]]

\* arxiv_client.py lines 395-397 and 405-432: os.makedirs fails, or the
\* directory is there and download_pdf writes the file, leaves an empty file,
\* finds no such paper or fails
DownloadOutcomes ==
    { [mkdir |-> "OSError", fetch |-> "none"],
      [mkdir |-> "ok", fetch |-> "ok"],
      [mkdir |-> "ok", fetch |-> "empty"],
      [mkdir |-> "ok", fetch |-> "StopIteration"],
      [mkdir |-> "ok", fetch |-> "HTTPError"] }

\* os.path.join(download_dir, f"{paper_id}.pdf")
pdf_path(paper_id) == [dir |-> "downloads", name |-> paper_id, ext |-> ".pdf"]

\* arxiv_client.py lines 380-432.  Returns what the call did: exc when it
\* raises, else ret (a path, or a dict with the key "error"), the files of
\* downloads/ after it and whether download_pdf was run
download(paper_id, dir, o) ==
    IF Slice(paper_id, 0, Len(DOI_PREFIX)) = DOI_PREFIX
    THEN [exc |-> NoExc, ret |-> [error |-> "unsupported"], files |-> dir, ran |-> 0]
    ELSE IF o.mkdir # "ok"
    THEN [exc |-> o.mkdir, ret |-> <<>>, files |-> dir, ran |-> 0]
    ELSE IF paper_id \in dir
    THEN [exc |-> NoExc, ret |-> pdf_path(paper_id), files |-> dir, ran |-> 0]
    ELSE IF o.fetch = "ok"
    THEN [exc |-> NoExc, ret |-> pdf_path(paper_id), files |-> dir \cup {paper_id}, ran |-> 1]
    ELSE IF o.fetch = "empty"
    THEN [exc |-> NoExc, ret |-> [error |-> "empty"], files |-> dir \cup {paper_id}, ran |-> 1]
    ELSE [exc |-> NoExc, ret |-> [error |-> o.fetch], files |-> dir, ran |-> 1]

\* app.py line 123: isinstance(output_path, dict) and "error" in output_path
is_error(output_path) == "error" \in DOMAIN output_path

\* paper_manager.py line 5: `from datetime import datetime` binds the name
\* datetime to the class, not to the module
DatetimeBinding == "class"

NOW == "2026-01-01 00:00:00"

\* paper_manager.py line 127: datetime.datetime.now().strftime(...); the
\* attribute datetime exists on the module only
download_date(binding) ==
    IF binding = "module" THEN [exc |-> NoExc, val |-> NOW]
    ELSE [exc |-> "AttributeError", val |-> "None"]

\* paper_manager.py lines 112-134 with _load_papers (286-297) and
\* _save_papers (299-314); stored is the content of papers.json, save_ok
\* whether the file can be written.  Returns [exc, ret, papers]
add_paper(stored, paper, local_path, save_ok) ==
    LET date == download_date(DatetimeBinding)
    IN  IF date.exc # NoExc
        THEN [exc |-> date.exc, ret |-> FALSE, papers |-> stored]
        ELSE IF "id" \notin DOMAIN paper
        THEN [exc |-> "KeyError", ret |-> FALSE, papers |-> stored]
        ELSE IF save_ok
        THEN [exc |-> NoExc, ret |-> TRUE,
              papers |-> Put(stored, paper.id,
                             dict_update(paper, [download_date |-> date.val,
                                                      local_path |-> local_path]))]
        ELSE [exc |-> NoExc, ret |-> FALSE, papers |-> stored]

\* paper_manager.py lines 136-147: papers.get(paper_id)
get_paper(stored, paper_id) == Get(stored, paper_id, "None")

\* paper_manager.py lines 149-158, as a set
get_all_papers(stored) == { stored[k] : k \in DOMAIN stored }

\* Mutant: the button is offered again once a download has ended
button_offered_after_end(paper_id, states) ==
    IF paper_id \in DOMAIN states THEN states[paper_id] \in {"success", "error"}
    ELSE TRUE

\* app.py line 395
button_offered(paper_id, states) == paper_id \notin DOMAIN states

\* app.py lines 395-409: the download button is pressed; the thread is started
ClickDownload(id) ==
    /\ button_offered(id, download_states)
    /\ Count(started, id) < 2
    /\ download_states' = Put(download_states, id, "initialized")
    /\ download_messages' = Put(download_messages, id, << "preparing" >>)
    /\ thread' = Put(thread, id, "begin")
    /\ started' = Put(started, id, Count(started, id) + 1)
    /\ UNCHANGED <<translation_cache, translation_fail_count, use_google_translate,
                   call, ncalls, writer, answered, chunk_vars, details, search,
                   attempts, files, nbatch, papers, manager>>

\* app.py lines 114-117: the thread begins
ThreadBegin(id) ==
    /\ id \in DOMAIN thread /\ thread[id] = "begin"
    /\ download_states' = Put(download_states, id, "downloading")
    /\ download_messages' = Put(download_messages, id, << "downloading" >>)
    /\ thread' = [thread EXCEPT ![id] = "download"]
    /\ UNCHANGED <<translation_cache, translation_fail_count, use_google_translate,
                   call, ncalls, writer, answered, chunk_vars, details, search,
                   started, attempts, files, nbatch, papers, manager>>

\* app.py lines 119-129 and 139-141: arxiv_client.download and its result
ThreadDownload(id) ==
    /\ id \in DOMAIN thread /\ thread[id] = "download"
    /\ \E o \in DownloadOutcomes :
        LET r == download(id, files, o)
        IN  /\ files' = r.files
            /\ attempts' = Put(attempts, id, Count(attempts, id) + r.ran)
            /\ IF r.exc # NoExc
               THEN /\ download_states' = Put(download_states, id, "error")
                    /\ download_messages' = Put(download_messages, id, << "exception" >>)
                    /\ thread' = [thread EXCEPT ![id] = "done"]
               ELSE IF is_error(r.ret)
               THEN /\ download_states' = Put(download_states, id, "error")
                    /\ download_messages' = Put(download_messages, id, << "failed" >>)
                    /\ thread' = [thread EXCEPT ![id] = "done"]
               ELSE /\ download_states' = Put(download_states, id, "success")
                    /\ download_messages' = Put(download_messages, id, << "succeeded" >>)
                    /\ thread' = [thread EXCEPT ![id] = "add"]
    /\ UNCHANGED <<translation_cache, translation_fail_count, use_google_translate,
                   call, ncalls, writer, answered, chunk_vars, details, search,
                   started, nbatch, papers, manager>>

\* app.py lines 131-137: get_paper_details, then paper_manager.add_paper; an
\* exception of either is caught and reported in the message
ThreadAdd(id) ==
    /\ id \in DOMAIN thread /\ thread[id] = "add"
    /\ DetailsCall
    /\ \E save_ok \in BOOLEAN :
        \E r \in { add_paper(papers, details'.record, pdf_path(id), save_ok) } :
            /\ papers' = r.papers
            /\ manager' = [pc |-> "returned", paper_data |-> details'.record,
                           local_path |-> pdf_path(id), save_ok |-> save_ok,
                           before |-> papers, exc |-> r.exc, ret |-> r.ret]
            /\ download_messages' =
                  [download_messages EXCEPT ![id] =
                      Append(@, IF r.exc = NoExc THEN "added" ELSE "add_failed")]
    /\ thread' = [thread EXCEPT ![id] = "done"]
    /\ UNCHANGED <<search, download_states, started, attempts, files, nbatch>>

\* app.py lines 442-462: the batch form is submitted with one id; the form
\* does not read or write download_states
BatchDownload(id) ==
    /\ nbatch < MaxBatch
    /\ nbatch' = nbatch + 1
    /\ \E o \in DownloadOutcomes :
        LET r == download(id, files, o)
        IN  /\ files' = r.files
            /\ attempts' = Put(attempts, id, Count(attempts, id) + r.ran)
    /\ UNCHANGED <<translation_cache, translation_fail_count, use_google_translate,
                   call, ncalls, writer, answered, chunk_vars, details, search,
                   download_states, download_messages, thread, started, papers, manager>>

AppNext ==
    \/ \E id \in AppIds : ClickDownload(id)
    \/ \E id \in AppIds : ThreadBegin(id)
    \/ \E id \in AppIds : ThreadDownload(id)
    \/ \E id \in AppIds : ThreadAdd(id)
    \/ \E id \in AppIds : BatchDownload(id)

AppSpec == Init /\ [][AppNext]_vars

\* C24 as stated: add_paper stores the record under paper_data['id'] with
\* download_date and local_path added and returns whether the save succeeded;
\* after a successful add_paper, get_paper(id) returns that record,
\* get_all_papers() contains it and the other stored papers are unchanged.
C24_Original ==
    manager.pc = "returned" =>
        /\ manager.exc = NoExc
        /\ manager.ret = manager.save_ok
        /\ manager.ret =>
              LET id == manager.paper_data.id
                  rec == get_paper(papers, id)
              IN  /\ id \in DOMAIN papers
                  /\ DOMAIN rec = DOMAIN manager.paper_data \cup {"download_date", "local_path"}
                  /\ \A k \in DOMAIN manager.paper_data : rec[k] = manager.paper_data[k]
                  /\ rec.local_path = manager.local_path
                  /\ rec \in get_all_papers(papers)
                  /\ \A k \in DOMAIN manager.before \ {id} :
                        k \in DOMAIN papers /\ papers[k] = manager.before[k]

\* The offset in the text at which chunk i of the returned list would begin
\* if the chunks lie one after the other
OffsetOf(chunks, i) == TotalLen(SubSeq(chunks, 1, i - 1))

\* C25: for every non-empty text and max_chunk_size >= 1, the chunks of
\* chunk_text are non-empty and are consecutive slices of the text that
\* begin at offset 0 and end at its end: joined without a separator they give
\* the text character for character.
C25_ExactPartition ==
    (chunk_in.done /\ Len(chunk_in.text) >= 1 /\ chunk_in.max_chunk_size >= 1)
    => /\ \A i \in 1..Len(chunk_out) :
             /\ Len(chunk_out[i]) >= 1
             /\ chunk_out[i] = Slice(chunk_in.text, OffsetOf(chunk_out, i),
                                     OffsetOf(chunk_out, i) + Len(chunk_out[i]))
       /\ TotalLen(chunk_out) = Len(chunk_in.text)

\* C25 witness: a cut at a sentence end left the space that follows at the
\* head of the next chunk, and a later chunk is that kind of white space only.
C25_Witness ==
    /\ chunk_in.done /\ Len(chunk_out) >= 3
    /\ \E i \in 2..Len(chunk_out) :
          /\ chunk_out[i - 1][Len(chunk_out[i - 1])] = DOT
          /\ chunk_out[i][1] = SP
    /\ \E i \in 1..Len(chunk_out) : chunk_out[i] = <<SP>>

\* The chunks of the call on which the primary backend raised
Raised(c) == { i \in 1..Len(c.trace) : c.trace[i].p = "exc" }

\* C26: an exception of the primary backend adds 1 to translation_fail_count
\* and leaves use_google_translate alone, so in a multi-chunk call every
\* chunk that follows only translations and exceptions still goes to the
\* primary backend, whatever the count has reached; the count sends a call to
\* the secondary backend only when the call begins.
C26_ExceptionKeepsPrimary ==
    \A t \in DOMAIN call :
        LET c == call[t]
        IN  /\ c.path \in {"fallback", "primary"}
                => (c.path = "primary" <=> (c.fc0 < 3 /\ ~c.ug0))
            /\ (c.path = "primary" /\ Len(c.chunks) > 1)
                => /\ \A i \in 1..Len(c.trace) :
                         (\A j \in 1..(i - 1) : c.trace[j].p \in {"ok", "exc"})
                         => c.trace[i].p \in {"ok", "exc", "sentinel"}
                   /\ (\A i \in 1..Len(c.trace) : c.trace[i].p \in {"ok", "exc"})
                         => /\ ~use_google_translate
                            /\ translation_fail_count = c.fc0 + Cardinality(Raised(c))
                            /\ c.nPrimary = Len(c.trace)

\* C26 witness: a three-chunk call that began with one failure counted saw
\* the primary backend raise on every chunk; the third chunk went to the
\* primary backend with the count at 3, and the flag is still not set.
C26_Witness ==
    \E t \in DOMAIN call :
        LET c == call[t]
        IN  /\ Translated(c) /\ c.path = "primary" /\ Len(c.chunks) = 3
            /\ c.fc0 = 1
            /\ \A i \in 1..3 : c.trace[i].p = "exc"
            /\ c.nPrimary = 3
            /\ translation_fail_count = 4 /\ ~use_google_translate

\* C27: a call on which every backend invocation failed stores the
\* untranslated string it returns in the cache, and a later call whose key is
\* in the cache returns the stored string without invoking a backend and
\* leaves the entry as it is.
C27_FailuresCached ==
    [][\A t \in DOMAIN call :
          LET c == call'[t]
              key == cache_key(c.text, c.to_lang, c.from_lang)
          IN  /\ (call[t].pc = "chunks" /\ Translated(c) /\ AllFailed(c))
                 => /\ c.ret = IF Len(c.chunks) = 1 THEN c.text ELSE join_space(c.chunks)
                    /\ key \in DOMAIN translation_cache'
                    /\ translation_cache'[key] = c.ret
              /\ (/\ c.seq # call[t].seq
                  /\ c.path \in {"hit", "fallback", "primary"}
                  /\ key \in DOMAIN translation_cache)
                 => /\ c.path = "hit" /\ Ended(c)
                    /\ c.ret = translation_cache[key]
                    /\ c.nPrimary = 0 /\ c.nGoogle = 0 /\ c.trace = <<>>
                    /\ translation_cache' = translation_cache]_vars

\* C27 witness: the primary backend raised and the secondary failed on the
\* first call, and the second call of the same request got the untranslated
\* text from the cache: two backend invocations in all.
C27_Witness ==
    \E t \in DOMAIN call :
        LET c == call[t]
            req == RequestOf(c)
        IN  /\ Ended(c) /\ c.path = "hit" /\ c.seq = 2
            /\ c.ret = c.text
            /\ req \in DOMAIN answered
            /\ answered[req].calls = 2 /\ answered[req].ret = c.text
            /\ answered[req].n = 2
            /\ translation_fail_count = 1

\* C28: a call that finds its key in the cache returns the stored value and
\* leaves translation_cache, translation_fail_count and use_google_translate
\* as they were, also when the count is 3 or more; and no step of a session
\* of sequential calls removes or replaces an entry of the cache.
C28_HitHasNoEffect ==
    [][/\ \A k \in DOMAIN translation_cache :
             k \in DOMAIN translation_cache' /\ translation_cache'[k] = translation_cache[k]
       /\ \A t \in DOMAIN call :
             (call'[t].seq # call[t].seq /\ call'[t].path = "hit")
             => /\ call'[t].cache_key \in DOMAIN translation_cache
                /\ call'[t].ret = translation_cache[call'[t].cache_key]
                /\ translation_cache' = translation_cache
                /\ translation_fail_count' = translation_fail_count
                /\ use_google_translate' = use_google_translate]_vars

\* C28 witness: after three exceptions of the primary backend in one call a
\* different text with the same key was answered from the cache, and the flag
\* is still not set.
C28_Witness ==
    \E t \in DOMAIN call :
        LET c == call[t]
        IN  /\ Ended(c) /\ c.path = "hit" /\ c.seq = 2
            /\ c.fc0 >= 3 /\ ~c.ug0
            /\ translation_fail_count = c.fc0 /\ ~use_google_translate
            /\ c.cache_key \in DOMAIN writer
            /\ writer[c.cache_key].text # c.text
            /\ c.ret = translation_cache[c.cache_key]

\* The answers of the primary backend that are its quota message
SentinelBodies == {SentinelBody, SentinelLowerBody}

\* C29: on the primary path a quota message of the primary backend is never
\* the value of a chunk: the value is what the secondary backend returned or,
\* if it failed, the chunk itself; so neither the returned string nor any
\* cached string contains the message.
C29_SentinelNotDelivered ==
    /\ \A k \in DOMAIN translation_cache :
          \A s \in SentinelBodies : ~IsSubstring(s, translation_cache[k])
    /\ \A t \in DOMAIN call :
          LET c == call[t]
          IN  c.path = "primary"
              => /\ \A i \in 1..Len(c.trace) :
                       c.trace[i].body \in SentinelBodies
                       => /\ c.trace[i].g \in {"ok", "fail"}
                          /\ i <= Len(c.translated_chunks)
                             => c.translated_chunks[i] =
                                   IF c.trace[i].g = "ok" THEN GoogleTranslation
                                   ELSE c.chunks[i]
                 /\ Ended(c) => \A s \in SentinelBodies : ~IsSubstring(s, c.ret)

\* C29 witness: the primary backend answered the first chunk of three with
\* its quota message and the secondary failed on all three; the call returned
\* the three chunks untranslated and the cache holds that string.
C29_Witness ==
    \E t \in DOMAIN call :
        LET c == call[t]
        IN  /\ Translated(c) /\ c.path = "primary" /\ Len(c.chunks) = 3
            /\ c.trace[1].body = SentinelBody
            /\ \A i \in 1..3 : c.trace[i].g = "fail"
            /\ c.translated_chunks = c.chunks
            /\ translation_cache[c.cache_key] = c.ret

\* The download has ended for the paper
Terminal(states, id) == id \in DOMAIN states /\ states[id] \in {"success", "error"}

\* One step of download_states[id]: absent -> "initialized" -> "downloading"
\* -> "success" or "error", or no move
InOrder(id) ==
    /\ id \notin DOMAIN download_states
          => (id \notin DOMAIN download_states' \/ download_states'[id] = "initialized")
    /\ id \in DOMAIN download_states
          => /\ id \in DOMAIN download_states'
             /\ \/ download_states'[id] = download_states[id]
                \/ <<download_states[id], download_states'[id]>> \in
                      { <<"initialized", "downloading">>,
                        <<"downloading", "success">>,
                        <<"downloading", "error">> }

\* A thread is started for a paper without an entry only, and once per paper
OneThread(id) ==
    /\ Count(started', id) <= 1
    /\ Count(started', id) > Count(started, id) => id \notin DOMAIN download_states

\* C30 as stated: the state of a paper moves in that order only, at most one
\* download thread is started per paper, and a paper whose state is "success"
\* or "error" is never downloaded again in the session.
C30_Original ==
    [][\A id \in AppIds :
          /\ InOrder(id)
          /\ OneThread(id)
          /\ Terminal(download_states, id)
                => Count(attempts', id) = Count(attempts, id)]_vars

\* C30: the state of a paper moves absent -> "initialized" -> "downloading"
\* -> "success" or "error" only; a thread is started only for a paper without
\* an entry, so at most once per paper; once the state is "success" or "error"
\* it stays, no thread is started for the paper, and download_pdf runs for it
\* again only from the batch download form.
C30_DownloadStateMachine ==
    [][\A id \in AppIds :
          /\ InOrder(id)
          /\ OneThread(id)
          /\ Terminal(download_states, id)
                => /\ download_states'[id] = download_states[id]
                   /\ Count(started', id) = Count(started, id)
                   /\ Count(attempts', id) > Count(attempts, id) => nbatch' = nbatch + 1]_vars

\* C30 witness: both papers went through their thread, one to "success" and
\* one to "error", and the paper store was asked to add the downloaded one.
C30_Witness ==
    /\ \A id \in AppIds :
          /\ Terminal(download_states, id)
          /\ Count(started, id) = 1
          /\ thread[id] = "done"
    /\ \E id \in AppIds : download_states[id] = "success"
    /\ \E id \in AppIds : download_states[id] = "error"
    /\ manager.pc = "returned"

====
